---- MODULE Spec2Model ----
(***************************************************************************)
(* The generation-history record store of banago: Service.Run and          *)
(* Service.Edit (internal/generation/service.go) over the on-disk store    *)
(* of internal/history (entry.go, edit.go), with gemini.SaveImages.        *)
(*                                                                         *)
(* Text is modelled as a sequence of character codes so that Go's string   *)
(* comparison (bytewise, a proper prefix is smaller) can be computed.      *)
(* A file is a record [st, data]: absent, empty (created or truncated,     *)
(* nothing written yet), corrupt (a truncated write that does not parse)   *)
(* or full.  Every step that touches the disk may fail.                    *)
(*                                                                         *)
(* Spec is the store under Run and Edit calls.  SpecValues is a caller of  *)
(* the history package holding an Entry or EditEntry value in memory:      *)
(* NewEntryFromSource with the slices it shares or copies, and Save and    *)
(* GetEntryByID / GetEditEntryByID through yaml.Marshal and Unmarshal.     *)
(* SpecLookup is a reader of stores of every shape, on a disk whose reads   *)
(* may fail.  SpecValidate is a caller of the validators with paths that   *)
(* exist, do not exist, or lie below a regular file.  SpecSave is a caller *)
(* that saves a value twice into a directory that may hold other files.    *)
(***************************************************************************)
EXTENDS Integers, Sequences, FiniteSets, TLC

\* ------------------------------------------------------------------ bounds
\* Number of Run and Edit calls that get past validation.
MaxCalls == 1

\* ------------------------------------------------------------- identifiers
\* A UUID prints as a fixed number of hex digits; here two digits out of
\* four.  Any other character code is not a hex digit.
HexDigits == {0, 1, 2, 3}

\* uuid.UUID.String(): fixed width, most significant digit first.
IdString(n) == << (n \div Cardinality(HexDigits)) % Cardinality(HexDigits), n % Cardinality(HexDigits) >>

\* uuid.Parse(name) succeeds
IsUUID(name) == Len(name) = Len(IdString(0)) /\ \A i \in 1..Len(name) : name[i] \in HexDigits

\* Go's a < b on strings
RECURSIVE StrLess(_, _)
StrLess(a, b) ==
    IF b = << >> THEN FALSE
    ELSE IF a = << >> THEN TRUE
    ELSE IF Head(a) # Head(b) THEN Head(a) < Head(b)
    ELSE StrLess(Tail(a), Tail(b))

\* ------------------------------------------------------------------- files
Absent == [st |-> "absent"]
Empty == [st |-> "empty"]
Corrupt == [st |-> "corrupt"]
Full(d) == [st |-> "full", data |-> d]
\* a file that is there but whose read fails with an I/O error
Unreadable == [st |-> "unreadable"]

\* What a failed os.WriteFile can leave behind of a file nobody parses: the
\* file as it was (the open failed) or a truncated file.
WriteFileFailures(old) == {old, Empty}

\* --------------------------------------------------------------- data model
ZeroGeneration == [PromptFile |-> "", InputImages |-> << >>, ContextFile |-> "", CharacterFile |-> ""]
ZeroResult == [Success |-> FALSE, OutputImages |-> << >>]
\* the zero value of history.Entry
ZeroEntry == [ID |-> << >>, Generation |-> ZeroGeneration, Result |-> ZeroResult]

ZeroEditSource == [Type |-> "", EditID |-> << >>, Output |-> << >>]
ZeroEditGeneration == [PromptFile |-> "", AspectRatio |-> << >>, ImageSize |-> ""]
\* the zero value of history.EditEntry
ZeroEditEntry == [ID |-> << >>, Source |-> ZeroEditSource, Generation |-> ZeroEditGeneration, Result |-> ZeroResult]

PromptFile == "prompt.txt"
ContextFile == "context.md"
CharacterFile == "character.md"
EditPromptFile == "edit-prompt.txt"

\* ------------------------------------------------------------ the directory
PlainFile == [kind |-> "file"]
\* the empty directory listing
EmptyMap == [x \in {} |-> PlainFile]
NoEdits == [exists |-> FALSE, items |-> EmptyMap]
\* a freshly made, empty directory
EmptyDir == [kind |-> "dir", prompt |-> Absent, meta |-> Absent, inputs |-> {}, outputs |-> {}, edits |-> NoEdits]
\* a freshly made, empty edit directory
EmptyEditDir == [kind |-> "dir", prompt |-> Absent, meta |-> Absent, outputs |-> {}]

\* the causes of a failed system call, as the error chain ends with them
ENOENT == "no such file or directory"
ENOTDIR == "not a directory"
EIO == "input/output error"
\* input files that exist outside the store
ExistingFiles == {"a.png", "b.png"}
\* paths that lead through one of these files as if it were a directory:
\* nothing exists there, and the system call fails with ENOTDIR
BelowAFile == {"a.png/x"}
\* os.Stat: "" for nil, or the cause of the error
Stat(path) == IF path \in ExistingFiles THEN "" ELSE IF path \in BelowAFile THEN ENOTDIR ELSE ENOENT

VARIABLES histExists, hist, pc, call, ret, pre, lastV7, gen, returned, out, ncalls, mem

vars == <<histExists, hist, pc, call, ret, pre, lastV7, gen, returned, out, ncalls, mem>>

\* the disk state a reader sees
Disk == [exists |-> histExists, hist |-> hist]

\* f with key k bound to v
Put(f, k, v) == [x \in (DOMAIN f) \cup {k} |-> IF x = k THEN v ELSE f[x]]
\* f without key k
Del(f, k) == [x \in (DOMAIN f) \ {k} |-> f[x]]

\* -------------------------------------------------------------- NewV7, IDs
NewV7 == lastV7 + 1

\* ------------------------------------------------------------------ slices
\* A []string in memory is nil or a view of a backing array.  arr names the
\* array when another value can reach it, and its content is then
\* mem.arrays[arr]; a slice over an array of its own carries the content in
\* elems.
NilSlice == [nil |-> TRUE, arr |-> "", elems |-> << >>]
\* a non-nil slice over a new array
NewSlice(elems) == [nil |-> FALSE, arr |-> "", elems |-> elems]
\* a non-nil slice over the whole of a named array
SliceOf(arr) == [nil |-> FALSE, arr |-> arr, elems |-> << >>]
\* the elements a reader of the slice sees now
Elems(s) == IF s.arr = "" THEN s.elems ELSE mem.arrays[s.arr]

\* ------------------------------------------------------------------ loading
\* yaml.Unmarshal of meta.yaml: an empty document decodes to the zero value
\* without an error; a truncated one fails to parse.
loadEntry(d) ==
    IF d.meta.st \in {"absent", "unreadable"} THEN [err |-> "failed to read meta.yaml", entry |-> ZeroEntry]
    ELSE IF d.meta.st = "corrupt" THEN [err |-> "failed to parse meta.yaml", entry |-> ZeroEntry]
    ELSE IF d.meta.st = "empty" THEN [err |-> "", entry |-> ZeroEntry]
    ELSE [err |-> "", entry |-> d.meta.data]

\* loadEditEntry reading meta.yaml, which no edit directory holds
loadEditEntry_WrongFile(d) == [err |-> "failed to read edit-meta.yaml", entry |-> ZeroEditEntry]

loadEditEntry(d) ==
    IF d.meta.st \in {"absent", "unreadable"} THEN [err |-> "failed to read edit-meta.yaml", entry |-> ZeroEditEntry]
    ELSE IF d.meta.st = "corrupt" THEN [err |-> "failed to parse edit-meta.yaml", entry |-> ZeroEditEntry]
    ELSE IF d.meta.st = "empty" THEN [err |-> "", entry |-> ZeroEditEntry]
    ELSE [err |-> "", entry |-> d.meta.data]

\* os.ReadDir: the names of a directory in file-name order
RECURSIVE ReadDir(_)
ReadDir(names) ==
    IF names = {} THEN << >>
    ELSE LET m == CHOOSE x \in names : \A y \in names \ {x} : StrLess(x, y)
         IN <<m>> \o ReadDir(names \ {m})

\* the comparison of the sort turned around
RECURSIVE InsertByID_Desc(_, _)
InsertByID_Desc(s, e) ==
    IF s = << >> THEN <<e>>
    ELSE IF StrLess(Head(s).ID, e.ID) THEN <<e>> \o s
    ELSE <<Head(s)>> \o InsertByID_Desc(Tail(s), e)

\* sort.Slice(result, func(i, j) { return result[i].ID < result[j].ID })
RECURSIVE InsertByID(_, _)
InsertByID(s, e) ==
    IF s = << >> THEN <<e>>
    ELSE IF StrLess(e.ID, Head(s).ID) THEN <<e>> \o s
    ELSE <<Head(s)>> \o InsertByID(Tail(s), e)

RECURSIVE SortByID(_)
SortByID(s) == IF s = << >> THEN << >> ELSE InsertByID(SortByID(Tail(s)), Head(s))

\* the loop without the uuid.Parse check on the directory name
RECURSIVE CollectEntries_NoUuidCheck(_, _)
CollectEntries_NoUuidCheck(names, h) ==
    IF names = << >> THEN << >>
    ELSE LET n == Head(names)
             rest == CollectEntries_NoUuidCheck(Tail(names), h)
         IN IF h[n].kind # "dir" THEN rest
            ELSE IF loadEntry(h[n]).err # "" THEN rest
            ELSE <<loadEntry(h[n]).entry>> \o rest

\* the loop of ListEntries over the directory entries
RECURSIVE CollectEntries(_, _)
CollectEntries(names, h) ==
    IF names = << >> THEN << >>
    ELSE LET n == Head(names)
             rest == CollectEntries(Tail(names), h)
         IN IF h[n].kind # "dir" THEN rest
            ELSE IF ~IsUUID(n) THEN rest
            ELSE IF loadEntry(h[n]).err # "" THEN rest
            ELSE <<loadEntry(h[n]).entry>> \o rest

ListEntries(disk) ==
    IF ~disk.exists THEN [err |-> "", list |-> << >>]
    ELSE [err |-> "", list |-> SortByID(CollectEntries(ReadDir(DOMAIN disk.hist), disk.hist))]

RECURSIVE CollectEditEntries(_, _)
CollectEditEntries(names, items) ==
    IF names = << >> THEN << >>
    ELSE LET n == Head(names)
             rest == CollectEditEntries(Tail(names), items)
         IN IF items[n].kind # "dir" THEN rest
            ELSE IF ~IsUUID(n) THEN rest
            ELSE IF loadEditEntry(items[n]).err # "" THEN rest
            ELSE <<loadEditEntry(items[n]).entry>> \o rest

\* ListEditEntries on the directory of one entry
ListEditEntries(d) ==
    IF ~d.edits.exists THEN [err |-> "", list |-> << >>]
    ELSE [err |-> "", list |-> SortByID(CollectEditEntries(ReadDir(DOMAIN d.edits.items), d.edits.items))]

\* --------------------------------------------------------------- validation
Digits == {"0", "1", "2", "3", "4", "5", "6", "7", "8", "9"}

\* aspectRatioRegex.MatchString: ^\d+:\d+$
aspectRatioRegex(s) ==
    \E i \in 1..Len(s) :
        /\ s[i] = ":"
        /\ i > 1
        /\ i < Len(s)
        /\ \A j \in (1..Len(s)) \ {i} : s[j] \in Digits

validSizes == {"1K", "2K", "4K"}

\* An error of a validator is its message followed by the values the
\* message prints; << >> is nil.
validateAspectRatio(aspect) ==
    IF aspect = << >> THEN << >>
    ELSE IF ~aspectRatioRegex(aspect) THEN <<"invalid aspect ratio">>
    ELSE << >>

\* a size check that lets every value pass
validateImageSize_Any(size) == << >>

validateImageSize(size) ==
    IF size = "" THEN << >>
    ELSE IF size \notin validSizes THEN <<"invalid image size">>
    ELSE << >>

\* the paths for which os.IsNotExist holds of the error of os.Stat
Missing(paths) == SelectSeq(paths, LAMBDA p : Stat(p) = ENOENT)

validateInputImages(paths) ==
    IF Len(Missing(paths)) > 0
    THEN (IF Len(Missing(paths)) = 1 THEN <<"input image not found", Missing(paths)[1]>>
          ELSE <<"input images not found">> \o Missing(paths))
    ELSE << >>

\* validateContext, the validation of a generation request before the
\* API call
validateContext(ctx) ==
    IF validateAspectRatio(ctx.AspectRatio) # << >> THEN validateAspectRatio(ctx.AspectRatio)
    ELSE IF validateImageSize(ctx.ImageSize) # << >> THEN validateImageSize(ctx.ImageSize)
    ELSE IF Len(ctx.ImagePaths) = 0 THEN <<"no input images specified">>
    ELSE IF validateInputImages(ctx.ImagePaths) # << >> THEN validateInputImages(ctx.ImagePaths)
    ELSE << >>

validateSpec(spec) ==
    IF validateAspectRatio(spec.AspectRatio) # << >> THEN validateAspectRatio(spec.AspectRatio)
    ELSE IF validateImageSize(spec.ImageSize) # << >> THEN validateImageSize(spec.ImageSize)
    ELSE IF Len(spec.ImagePaths) = 0 THEN <<"no input images specified">>
    ELSE IF validateInputImages(spec.ImagePaths) # << >> THEN validateInputImages(spec.ImagePaths)
    ELSE << >>

\* ------------------------------------------------------------------- inputs
BaseSpec == [Model |-> "m", Prompt |-> "red", ImagePaths |-> <<"a.png">>, AspectRatio |-> << >>,
             ImageSize |-> "", InputImageNames |-> <<"a.png">>, SourceEntryID |-> << >>]

\* the Specs a caller hands to Run (SourceEntryID is filled in by RunBegin)
Specs ==
    { BaseSpec,
      [BaseSpec EXCEPT !.Prompt = "", !.ImagePaths = <<"a.png", "b.png">>,
                       !.InputImageNames = <<"a.png", "b.png">>,
                       !.AspectRatio = <<"1", "6", ":", "9">>, !.ImageSize = "2K"],
      [BaseSpec EXCEPT !.AspectRatio = <<"w", "i", "d", "e">>],
      [BaseSpec EXCEPT !.AspectRatio = <<"1", "6", ":">>],
      [BaseSpec EXCEPT !.ImageSize = "5K"],
      [BaseSpec EXCEPT !.ImagePaths = << >>, !.InputImageNames = << >>],
      [BaseSpec EXCEPT !.ImagePaths = <<"gone.png">>, !.InputImageNames = <<"gone.png">>],
      [BaseSpec EXCEPT !.ImagePaths = <<"a.png", "gone.png">>, !.InputImageNames = <<"a.png", "gone.png">>] }

\* the parts of a Generator response: an inline image, or a part without data
Responses == { << >>, <<"nil">>, <<"img">>, <<"nil", "img">>, <<"img", "img">> }
GeneratorErrors == {"API error", "context canceled"}
\* a nil *genai.GenerateContentResponse
NoResp == [nil |-> TRUE, parts |-> << >>]
\* what Generate may return: an error, a response, or neither
GeneratorResults ==
    {[Error |-> e, Response |-> NoResp] : e \in GeneratorErrors}
    \cup {[Error |-> "", Response |-> [nil |-> FALSE, parts |-> r]] : r \in Responses}
    \cup {[Error |-> "", Response |-> NoResp]}

\* ------------------------------------------------------------ process state
\* the call in flight: the request, the entry value in memory, the
\* Generator's result (genErr is result.Error, "" for nil) and the locals of
\* SaveImages
NoCall == [op |-> "", spec |-> BaseSpec, id |-> << >>, entry |-> ZeroEntry, genErr |-> "", resp |-> NoResp,
           idx |-> 0, saved |-> << >>, runID |-> << >>, err |-> ""]
\* what the last call returned; err is the chain of wrapped messages, spec
\* and attempt remember the request and the ID drawn for it
NoRet == [kind |-> "none", op |-> "", spec |-> BaseSpec, attempt |-> << >>, id |-> << >>, outputs |-> << >>,
          err |-> << >>]
\* the Generator as the test double records it: the number of calls, the
\* last Params, and what it answered
NoGen == [count |-> 0, params |-> << >>, failed |-> FALSE, resp |-> NoResp]

ErrRet(op, spec, attempt, err) ==
    [kind |-> "err", op |-> op, spec |-> spec, attempt |-> attempt, id |-> << >>, outputs |-> << >>, err |-> err]
OkRet(op, spec, id, outputs) ==
    [kind |-> "ok", op |-> op, spec |-> spec, attempt |-> id, id |-> id, outputs |-> outputs, err |-> << >>]

\* the directory the call in flight writes into
TargetDir ==
    IF call.op = "run" THEN hist[call.id]
    ELSE hist[call.spec.EntryID].edits.items[call.id]

\* the disk with the target directory replaced by d
WithTargetDir(d) ==
    IF call.op = "run" THEN Put(hist, call.id, d)
    ELSE Put(hist, call.spec.EntryID,
             [hist[call.spec.EntryID] EXCEPT !.edits.items = Put(@, call.id, d)])

\* the entries a reader can list, by directory name
Listable == {n \in DOMAIN hist : hist[n].kind = "dir" /\ IsUUID(n) /\ loadEntry(hist[n]).err = ""}
\* the entries whose metadata names their own directory
Complete == {n \in Listable : loadEntry(hist[n]).entry.ID = n}

\* history.NewEntry: a fresh ID, everything else zero
NewEntry == [ZeroEntry EXCEPT !.ID = IdString(NewV7)]

\* NewEntryFromSource assigning the source's slice instead of copying it
NewEntryFromSource_Alias(source) ==
    [NewEntry EXCEPT !.Generation = [PromptFile |-> source.Generation.PromptFile,
                                     InputImages |-> source.Generation.InputImages,
                                     ContextFile |-> source.Generation.ContextFile,
                                     CharacterFile |-> source.Generation.CharacterFile]]
\* history.NewEntryFromSource: a fresh ID and the source's Generation;
\* append([]string{}, s...) yields a non-nil slice over an array of its own
NewEntryFromSource(source) ==
    [NewEntry EXCEPT !.Generation = [PromptFile |-> source.Generation.PromptFile,
                                     InputImages |-> NewSlice(Elems(source.Generation.InputImages)),
                                     ContextFile |-> source.Generation.ContextFile,
                                     CharacterFile |-> source.Generation.CharacterFile]]

\* the Entry value Run builds before it touches the disk
RunEntry(spec) ==
    LET e == IF spec.SourceEntryID # << >>
             THEN NewEntryFromSource([ZeroEntry EXCEPT !.ID = spec.SourceEntryID,
                                                       !.Generation.InputImages = NilSlice])
             ELSE NewEntry
    IN [e EXCEPT !.Generation.PromptFile = PromptFile, !.Generation.InputImages = spec.InputImageNames]

\* ------------------------------------------------------------- Service.Run
\* Run, up to the point where the entry is built: validation first.
RunBegin(spec) ==
    /\ pc = "idle"
    /\ UNCHANGED mem
    /\ pre' = Disk
    /\ gen' = NoGen
    /\ out' = {}
    /\ IF validateSpec(spec) # << >>
       THEN /\ ret' = ErrRet("run", spec, << >>, validateSpec(spec))
            /\ UNCHANGED <<histExists, hist, pc, call, lastV7, returned, ncalls>>
       ELSE /\ ncalls < MaxCalls
            /\ ncalls' = ncalls + 1
            /\ call' = [NoCall EXCEPT !.op = "run", !.spec = spec, !.id = RunEntry(spec).ID,
                                     !.entry = RunEntry(spec)]
            /\ lastV7' = NewV7
            /\ pc' = "run_mkdir"
            /\ ret' = NoRet
            /\ UNCHANGED <<histExists, hist, returned>>

\* os.MkdirAll(entryDir): makes the history directory too when it is missing
RunMkdirAll ==
    /\ pc = "run_mkdir"
    /\ UNCHANGED mem
    /\ \E ok \in BOOLEAN, parent \in BOOLEAN :
         IF ok
         THEN /\ parent
              /\ histExists' = TRUE
              /\ hist' = Put(hist, call.id, EmptyDir)
              /\ pc' = "run_prompt"
              /\ UNCHANGED <<call, ret>>
         ELSE /\ histExists' = (histExists \/ parent)
              /\ ret' = ErrRet("run", call.spec, call.id, <<"failed to create history directory">>)
              /\ pc' = "idle"
              /\ call' = NoCall
              /\ UNCHANGED hist
    /\ UNCHANGED <<pre, lastV7, gen, returned, out, ncalls>>

\* Run going on after a failed write of the prompt
RunSavePrompt_IgnoreError ==
    /\ pc = "run_prompt"
    /\ UNCHANGED mem
    /\ \/ hist' = Put(hist, call.id, [hist[call.id] EXCEPT !.prompt = Full(call.spec.Prompt)])
       \/ \E f \in WriteFileFailures(hist[call.id].prompt) :
             hist' = Put(hist, call.id, [hist[call.id] EXCEPT !.prompt = f])
    /\ pc' = "run_inputs"
    /\ UNCHANGED <<histExists, call, ret, pre, lastV7, gen, returned, out, ncalls>>

\* entry.SavePrompt: an error is returned as it is, the directory stays
RunSavePrompt ==
    /\ pc = "run_prompt"
    /\ UNCHANGED mem
    /\ \/ /\ hist' = Put(hist, call.id, [hist[call.id] EXCEPT !.prompt = Full(call.spec.Prompt)])
          /\ pc' = "run_inputs"
          /\ UNCHANGED <<call, ret>>
       \/ /\ \E f \in WriteFileFailures(hist[call.id].prompt) :
                hist' = Put(hist, call.id, [hist[call.id] EXCEPT !.prompt = f])
          /\ ret' = ErrRet("run", call.spec, call.id, <<"failed to save prompt">>)
          /\ pc' = "idle"
          /\ call' = NoCall
    /\ UNCHANGED <<histExists, pre, lastV7, gen, returned, out, ncalls>>

\* the set of the first j elements of a sequence
Prefix(s, j) == {s[i] : i \in 1..j}

\* entry.SaveInputImages: copies the files in order, stops at the first
\* failure; Run only warns about it
RunSaveInputImages ==
    /\ pc = "run_inputs"
    /\ UNCHANGED mem
    /\ \E j \in 0..Len(call.spec.ImagePaths) :
         /\ hist' = Put(hist, call.id, [hist[call.id] EXCEPT !.inputs = Prefix(call.spec.ImagePaths, j)])
         /\ out' = IF j < Len(call.spec.ImagePaths) THEN out \cup {"Warning: failed to save input images"} ELSE out
    /\ pc' = "run_generate"
    /\ UNCHANGED <<histExists, call, ret, pre, lastV7, gen, returned, ncalls>>

\* s.generator.Generate with the Spec's parameters; any outcome is possible
\* Run calling the Generator as Edit does, without aspect ratio and size
RunGenerate_NoSize ==
    /\ pc = "run_generate"
    /\ UNCHANGED mem
    /\ \E res \in GeneratorResults :
         /\ gen' = [count |-> gen.count + 1,
                    params |-> [Model |-> call.spec.Model, Prompt |-> call.spec.Prompt,
                                ImagePaths |-> call.spec.ImagePaths, AspectRatio |-> << >>,
                                ImageSize |-> ""],
                    failed |-> (res.Error # ""), resp |-> res.Response]
         /\ call' = [call EXCEPT !.genErr = res.Error, !.resp = res.Response]
         /\ pc' = IF res.Error # "" THEN "run_cleanup" ELSE "saveimages"
    /\ UNCHANGED <<histExists, hist, ret, pre, lastV7, returned, out, ncalls>>

RunGenerate ==
    /\ pc = "run_generate"
    /\ UNCHANGED mem
    /\ \E res \in GeneratorResults :
         /\ gen' = [count |-> gen.count + 1,
                    params |-> [Model |-> call.spec.Model, Prompt |-> call.spec.Prompt,
                                ImagePaths |-> call.spec.ImagePaths, AspectRatio |-> call.spec.AspectRatio,
                                ImageSize |-> call.spec.ImageSize],
                    failed |-> (res.Error # ""), resp |-> res.Response]
         /\ call' = [call EXCEPT !.genErr = res.Error, !.resp = res.Response]
         /\ pc' = IF res.Error # "" THEN "run_cleanup" ELSE "saveimages"
    /\ UNCHANGED <<histExists, hist, ret, pre, lastV7, returned, out, ncalls>>

\* what os.RemoveAll can leave when it fails: the directory as it was, or
\* the directory with its content already gone
RemoveAllFailures(d) == {d, EmptyDir}

\* the error return of Run with the failure recorded in meta.yaml instead
\* of the directory removed
RunCleanup_RecordFailure ==
    /\ pc = "run_cleanup"
    /\ UNCHANGED mem
    /\ hist' = Put(hist, call.id, [hist[call.id] EXCEPT !.meta = Full(call.entry)])
    /\ out' = out
    /\ ret' = ErrRet("run", call.spec, call.id,
                     IF call.genErr # "" THEN <<"failed to generate image", call.genErr>> ELSE <<call.err>>)
    /\ pc' = "idle"
    /\ call' = NoCall
    /\ UNCHANGED <<histExists, pre, lastV7, gen, returned, ncalls>>

\* the error return of Run without the call of Cleanup
RunCleanup_Skip ==
    /\ pc = "run_cleanup"
    /\ UNCHANGED mem
    /\ UNCHANGED <<hist, out>>
    /\ ret' = ErrRet("run", call.spec, call.id,
                     IF call.genErr # "" THEN <<"failed to generate image", call.genErr>> ELSE <<call.err>>)
    /\ pc' = "idle"
    /\ call' = NoCall
    /\ UNCHANGED <<histExists, pre, lastV7, gen, returned, ncalls>>

\* a Cleanup that removes the output images and leaves the directory
RunCleanup_OutputsOnly ==
    /\ pc = "run_cleanup"
    /\ UNCHANGED mem
    /\ hist' = Put(hist, call.id, [hist[call.id] EXCEPT !.outputs = {}])
    /\ out' = out
    /\ ret' = ErrRet("run", call.spec, call.id,
                     IF call.genErr # "" THEN <<"failed to generate image", call.genErr>> ELSE <<call.err>>)
    /\ pc' = "idle"
    /\ call' = NoCall
    /\ UNCHANGED <<histExists, pre, lastV7, gen, returned, ncalls>>

\* entry.Cleanup, then the error return of Run
RunCleanup ==
    /\ pc = "run_cleanup"
    /\ UNCHANGED mem
    /\ \/ /\ hist' = Del(hist, call.id)
          /\ out' = out
       \/ /\ \E d \in RemoveAllFailures(hist[call.id]) : hist' = Put(hist, call.id, d)
          /\ out' = out \cup {"Warning: failed to clean up history directory"}
    /\ ret' = ErrRet("run", call.spec, call.id,
                     IF call.genErr # "" THEN <<"failed to generate image", call.genErr>> ELSE <<call.err>>)
    /\ pc' = "idle"
    /\ call' = NoCall
    /\ UNCHANGED <<histExists, pre, lastV7, gen, returned, ncalls>>

\* ------------------------------------------------------- gemini.SaveImages
OutName(runID, n) == [run |-> runID, n |-> n]
\* a file name that leaves the index of the image out
OutFile_SameName(runID, n, full) == [run |-> runID, n |-> 1, full |-> full]
OutFile(runID, n, full) == [run |-> runID, n |-> n, full |-> full]
\* the names of the output files in a directory
OutputNames(d) == {OutName(o.run, o.n) : o \in d.outputs}

\* SaveImages up to its loop: the nil check, the run ID, MkdirAll of the
\* directory, which exists already
SaveImagesBegin ==
    /\ pc = "saveimages"
    /\ UNCHANGED mem
    /\ IF call.resp.nil
       THEN /\ call' = [call EXCEPT !.err = "response is empty"]
            /\ pc' = IF call.op = "run" THEN "run_cleanup" ELSE "edit_cleanup"
            /\ UNCHANGED lastV7
       ELSE /\ lastV7' = NewV7
            /\ \/ /\ call' = [call EXCEPT !.runID = IdString(NewV7), !.idx = 1, !.saved = << >>]
                  /\ pc' = "saveimages_part"
               \/ /\ call' = [call EXCEPT !.runID = IdString(NewV7), !.err = "failed to create output directory"]
                  /\ pc' = IF call.op = "run" THEN "run_cleanup" ELSE "edit_cleanup"
    /\ UNCHANGED <<histExists, hist, ret, pre, gen, returned, out, ncalls>>

\* one round of the loop over the parts of the response
SaveImagesPart ==
    /\ pc = "saveimages_part"
    /\ UNCHANGED mem
    /\ call.idx <= Len(call.resp.parts)
    /\ IF call.resp.parts[call.idx] = "nil"
       THEN /\ call' = [call EXCEPT !.idx = @ + 1]
            /\ UNCHANGED <<hist, pc>>
       ELSE \/ /\ hist' = WithTargetDir([TargetDir EXCEPT !.outputs =
                                @ \cup {OutFile(call.runID, Len(call.saved) + 1, TRUE)}])
               /\ call' = [call EXCEPT !.idx = @ + 1,
                                       !.saved = Append(@, OutName(call.runID, Len(call.saved) + 1))]
               /\ UNCHANGED pc
            \/ /\ \E left \in BOOLEAN :
                    hist' = IF left
                            THEN WithTargetDir([TargetDir EXCEPT !.outputs =
                                     @ \cup {OutFile(call.runID, Len(call.saved) + 1, FALSE)}])
                            ELSE hist
               /\ call' = [call EXCEPT !.err = "failed to save image"]
               /\ pc' = IF call.op = "run" THEN "run_cleanup" ELSE "edit_cleanup"
    /\ UNCHANGED <<histExists, ret, pre, lastV7, gen, returned, out, ncalls>>

\* a SaveImages that returns an empty list for a response without any image
SaveImagesEnd_AllowEmpty ==
    /\ pc = "saveimages_part"
    /\ UNCHANGED mem
    /\ call.idx > Len(call.resp.parts)
    /\ call' = call
    /\ pc' = IF call.op = "run" THEN "run_save" ELSE "edit_save"
    /\ UNCHANGED <<histExists, hist, ret, pre, lastV7, gen, returned, out, ncalls>>

\* after the loop: a response without any image is an error
SaveImagesEnd ==
    /\ pc = "saveimages_part"
    /\ UNCHANGED mem
    /\ call.idx > Len(call.resp.parts)
    /\ IF Len(call.saved) = 0
       THEN /\ call' = [call EXCEPT !.err = "no image response found"]
            /\ pc' = IF call.op = "run" THEN "run_cleanup" ELSE "edit_cleanup"
       ELSE /\ call' = call
            /\ pc' = IF call.op = "run" THEN "run_save" ELSE "edit_save"
    /\ UNCHANGED <<histExists, hist, ret, pre, lastV7, gen, returned, out, ncalls>>

\* ------------------------------------------------- Entry.Save, end of Run
\* a Result that lists the outputs without marking the success
SavedResult_Unmarked == [Success |-> FALSE, OutputImages |-> call.saved]
\* the Result of a call whose images were saved
SavedResult == [Success |-> TRUE, OutputImages |-> call.saved]

\* Run fills in the Result, then Entry.Save up to the opening of meta.yaml
\* (os.WriteFile creates or truncates the file before it writes); Run only
\* warns when Save fails
RunSaveOpen ==
    /\ pc = "run_save"
    /\ UNCHANGED mem
    /\ \/ /\ hist' = Put(hist, call.id, [hist[call.id] EXCEPT !.meta = Empty])
          /\ call' = [call EXCEPT !.entry.Result = SavedResult]
          /\ pc' = "run_save_write"
          /\ UNCHANGED <<ret, returned, out>>
       \/ /\ out' = out \cup {"Warning: failed to save history"}
          /\ ret' = OkRet("run", call.spec, call.entry.ID, SavedResult.OutputImages)
          /\ returned' = Append(returned, call.entry.ID)
          /\ pc' = "idle"
          /\ call' = NoCall
          /\ UNCHANGED hist
    /\ UNCHANGED <<histExists, pre, lastV7, gen, ncalls>>

\* a Run that treats a failed write of meta.yaml as a failure of the call:
\* it removes the entry directory and returns the error
RunSaveWrite_FailOnError ==
    /\ pc = "run_save_write"
    /\ UNCHANGED mem
    /\ \/ /\ hist' = Put(hist, call.id, [hist[call.id] EXCEPT !.meta = Full(call.entry)])
          /\ ret' = OkRet("run", call.spec, call.entry.ID, call.entry.Result.OutputImages)
          /\ returned' = Append(returned, call.entry.ID)
          /\ out' = out
       \/ /\ hist' = Del(hist, call.id)
          /\ ret' = ErrRet("run", call.spec, call.id, <<"failed to save history">>)
          /\ returned' = returned
          /\ out' = out \cup {"Warning: failed to save history"}
    /\ pc' = "idle"
    /\ call' = NoCall
    /\ UNCHANGED <<histExists, pre, lastV7, gen, ncalls>>

\* the write of meta.yaml, and the return of Run
RunSaveWrite ==
    /\ pc = "run_save_write"
    /\ UNCHANGED mem
    /\ \/ /\ hist' = Put(hist, call.id, [hist[call.id] EXCEPT !.meta = Full(call.entry)])
          /\ out' = out
       \/ /\ \E f \in {Empty, Corrupt} : hist' = Put(hist, call.id, [hist[call.id] EXCEPT !.meta = f])
          /\ out' = out \cup {"Warning: failed to save history"}
    /\ ret' = OkRet("run", call.spec, call.entry.ID, call.entry.Result.OutputImages)
    /\ returned' = Append(returned, call.entry.ID)
    /\ pc' = "idle"
    /\ call' = NoCall
    /\ UNCHANGED <<histExists, pre, lastV7, gen, ncalls>>

\* ------------------------------------------------------------ Service.Edit
\* the path of an output image: filepath.Join(entryDir, name), or
\* GetEditOutputPath(entryDir, editID, name) when editID is not empty
OutputPath(entryID, editID, name) == [entry |-> entryID, edit |-> editID, file |-> name]

BaseEditSpec == [Model |-> "m", Prompt |-> "blue", AspectRatio |-> << >>, ImageSize |-> "",
                 SourceImagePath |-> OutputPath(<< >>, << >>, OutName(<< >>, 0)), EntryID |-> << >>,
                 SourceType |-> "generate", SourceEditID |-> << >>, SourceOutput |-> OutName(<< >>, 0)]

\* an ID no entry of the store has
MissingID == IdString(15)

\* an edit entry whose ID is not drawn from the clock (not a version 7 UUID)
NewEditEntry_Stale == [ZeroEditEntry EXCEPT !.ID = IdString(0), !.Generation.PromptFile = EditPromptFile]

\* history.NewEditEntry
NewEditEntry == [ZeroEditEntry EXCEPT !.ID = IdString(NewV7), !.Generation.PromptFile = EditPromptFile]

\* the edits of entry n a reader can list, by directory name
ListableEdits(n) ==
    IF n \notin DOMAIN hist \/ hist[n].kind # "dir" THEN {}
    ELSE {e \in DOMAIN hist[n].edits.items :
             /\ hist[n].edits.items[e].kind = "dir"
             /\ IsUUID(e)
             /\ loadEditEntry(hist[n].edits.items[e]).err = ""}

\* the edits of entry n whose metadata names their own directory
CompleteEdits(n) == {e \in ListableEdits(n) : loadEditEntry(hist[n].edits.items[e]).entry.ID = e}

\* Edit with the Source of the new edit entry left at its zero value
EditBegin_NoSource(spec) ==
    /\ pc = "idle"
    /\ UNCHANGED mem
    /\ ncalls < MaxCalls
    /\ ncalls' = ncalls + 1
    /\ pre' = Disk
    /\ gen' = NoGen
    /\ out' = {}
    /\ ret' = NoRet
    /\ call' = [NoCall EXCEPT !.op = "edit", !.spec = spec, !.id = NewEditEntry.ID, !.entry = NewEditEntry]
    /\ lastV7' = NewV7
    /\ pc' = "edit_mkdir"
    /\ UNCHANGED <<histExists, hist, returned>>

\* Edit up to the point where the edit entry is built; it validates nothing
EditBegin(spec) ==
    /\ pc = "idle"
    /\ UNCHANGED mem
    /\ ncalls < MaxCalls
    /\ ncalls' = ncalls + 1
    /\ pre' = Disk
    /\ gen' = NoGen
    /\ out' = {}
    /\ ret' = NoRet
    /\ call' = [NoCall EXCEPT !.op = "edit", !.spec = spec, !.id = NewEditEntry.ID,
                              !.entry = [NewEditEntry EXCEPT !.Source = [Type |-> spec.SourceType,
                                                                         EditID |-> spec.SourceEditID,
                                                                         Output |-> spec.SourceOutput]]]
    /\ lastV7' = NewV7
    /\ pc' = "edit_mkdir"
    /\ UNCHANGED <<histExists, hist, returned>>

\* the entry directory with the edits directory and the new edit directory
WithEditDir(d, id) == [d EXCEPT !.edits = [exists |-> TRUE, items |-> Put(d.edits.items, id, EmptyEditDir)]]

\* os.MkdirAll(editDir): makes every missing directory on the way, the
\* history directory and the entry directory included; it fails when a
\* plain file is in the way
EditMkdirAll ==
    /\ pc = "edit_mkdir"
    /\ UNCHANGED mem
    /\ LET n == call.spec.EntryID
           d == IF n \in DOMAIN hist THEN hist[n] ELSE EmptyDir
       IN \E upto \in 0..4 :
            \* upto: how many of history, entry, edits, edit directory exist afterwards
            /\ (n \in DOMAIN hist /\ hist[n].kind = "file") => upto <= 1
            /\ histExists' = (histExists \/ upto >= 1)
            /\ hist' = IF upto = 4 THEN Put(hist, n, WithEditDir(d, call.id))
                       ELSE IF upto = 3 THEN Put(hist, n, [d EXCEPT !.edits.exists = TRUE])
                       ELSE IF upto = 2 THEN Put(hist, n, d)
                       ELSE hist
            /\ IF upto = 4
               THEN /\ pc' = "edit_prompt"
                    /\ UNCHANGED <<call, ret>>
               ELSE /\ ret' = ErrRet("edit", call.spec, call.id, <<"failed to create edit directory">>)
                    /\ pc' = "idle"
                    /\ call' = NoCall
    /\ UNCHANGED <<pre, lastV7, gen, returned, out, ncalls>>

\* editEntry.SavePrompt: an error is returned as it is, the directory stays
EditSavePrompt ==
    /\ pc = "edit_prompt"
    /\ UNCHANGED mem
    /\ \/ /\ hist' = WithTargetDir([TargetDir EXCEPT !.prompt = Full(call.spec.Prompt)])
          /\ pc' = "edit_generate"
          /\ UNCHANGED <<call, ret>>
       \/ /\ \E f \in WriteFileFailures(TargetDir.prompt) :
                hist' = WithTargetDir([TargetDir EXCEPT !.prompt = f])
          /\ ret' = ErrRet("edit", call.spec, call.id, <<"failed to save edit prompt">>)
          /\ pc' = "idle"
          /\ call' = NoCall
    /\ UNCHANGED <<histExists, pre, lastV7, gen, returned, out, ncalls>>

\* s.generator.Generate with the source image as the only input image;
\* AspectRatio and ImageSize of the Params are left at their zero value
EditGenerate ==
    /\ pc = "edit_generate"
    /\ UNCHANGED mem
    /\ \E res \in GeneratorResults :
         /\ gen' = [count |-> gen.count + 1,
                    params |-> [Model |-> call.spec.Model, Prompt |-> call.spec.Prompt,
                                ImagePaths |-> <<call.spec.SourceImagePath>>, AspectRatio |-> << >>,
                                ImageSize |-> ""],
                    failed |-> (res.Error # ""), resp |-> res.Response]
         /\ call' = [call EXCEPT !.genErr = res.Error, !.resp = res.Response]
         /\ pc' = IF res.Error # "" THEN "edit_cleanup" ELSE "saveimages"
    /\ UNCHANGED <<histExists, hist, ret, pre, lastV7, returned, out, ncalls>>

\* what os.RemoveAll can leave of an edit directory when it fails
RemoveAllEditFailures(d) == {d, EmptyEditDir}

\* a Cleanup that removes the whole edits directory of the entry
EditCleanup_RemoveEditsDir ==
    /\ pc = "edit_cleanup"
    /\ UNCHANGED mem
    /\ hist' = Put(hist, call.spec.EntryID, [hist[call.spec.EntryID] EXCEPT !.edits = NoEdits])
    /\ out' = out
    /\ ret' = ErrRet("edit", call.spec, call.id,
                     IF call.genErr # "" THEN <<"failed to edit image", call.genErr>> ELSE <<call.err>>)
    /\ pc' = "idle"
    /\ call' = NoCall
    /\ UNCHANGED <<histExists, pre, lastV7, gen, returned, ncalls>>

\* editEntry.Cleanup removes the edit directory only, then the error return
EditCleanup ==
    /\ pc = "edit_cleanup"
    /\ UNCHANGED mem
    /\ \/ /\ hist' = Put(hist, call.spec.EntryID,
                         [hist[call.spec.EntryID] EXCEPT !.edits.items = Del(@, call.id)])
          /\ out' = out
       \/ /\ \E d \in RemoveAllEditFailures(TargetDir) : hist' = WithTargetDir(d)
          /\ out' = out \cup {"Warning: failed to clean up edit directory"}
    /\ ret' = ErrRet("edit", call.spec, call.id,
                     IF call.genErr # "" THEN <<"failed to edit image", call.genErr>> ELSE <<call.err>>)
    /\ pc' = "idle"
    /\ call' = NoCall
    /\ UNCHANGED <<histExists, pre, lastV7, gen, returned, ncalls>>

\* Edit fills in the Result, then EditEntry.Save up to the opening of
\* edit-meta.yaml; Edit only warns when Save fails
EditSaveOpen ==
    /\ pc = "edit_save"
    /\ UNCHANGED mem
    /\ \/ /\ hist' = WithTargetDir([TargetDir EXCEPT !.meta = Empty])
          /\ call' = [call EXCEPT !.entry.Result = SavedResult]
          /\ pc' = "edit_save_write"
          /\ UNCHANGED <<ret, out>>
       \/ /\ out' = out \cup {"Warning: failed to save edit metadata"}
          /\ ret' = OkRet("edit", call.spec, call.entry.ID, SavedResult.OutputImages)
          /\ pc' = "idle"
          /\ call' = NoCall
          /\ UNCHANGED hist
    /\ UNCHANGED <<histExists, pre, lastV7, gen, returned, ncalls>>

\* the write of edit-meta.yaml, and the return of Edit
EditSaveWrite ==
    /\ pc = "edit_save_write"
    /\ UNCHANGED mem
    /\ \/ /\ hist' = WithTargetDir([TargetDir EXCEPT !.meta = Full(call.entry)])
          /\ out' = out
       \/ /\ \E f \in {Empty, Corrupt} : hist' = WithTargetDir([TargetDir EXCEPT !.meta = f])
          /\ out' = out \cup {"Warning: failed to save edit metadata"}
    /\ ret' = OkRet("edit", call.spec, call.entry.ID, call.entry.Result.OutputImages)
    /\ pc' = "idle"
    /\ call' = NoCall
    /\ UNCHANGED <<histExists, pre, lastV7, gen, returned, ncalls>>

\* ------------------------------------------------------------ the callers
\* history.GetInputImagePaths: the paths of those input images of an entry
\* that exist in its directory (a copy is named by the file it copies)
GetInputImagePaths(d, names) == SelectSeq(names, LAMBDA x : x \in d.inputs)

\* history.LoadPrompt on a prompt file that exists
LoadPrompt(d) == IF d.prompt.st = "full" THEN d.prompt.data ELSE ""

\* the aspect ratio and image size the subproject configuration may give
ConfiguredSizes == {[AspectRatio |-> << >>, ImageSize |-> ""],
                    [AspectRatio |-> <<"1", "6", ":", "9">>, ImageSize |-> "2K"]}

\* the Spec the regenerate command builds from the entry in directory n:
\* the prompt, the input image copies and the input image names of the
\* source, and its ID as SourceEntryID
RegenerateSpecs(n) ==
    LET e == loadEntry(hist[n]).entry
        imagePaths == GetInputImagePaths(hist[n], e.Generation.InputImages)
    IN IF hist[n].prompt.st = "absent" \/ Len(imagePaths) = 0 THEN {}
       ELSE {[Model |-> "m", Prompt |-> LoadPrompt(hist[n]), ImagePaths |-> imagePaths,
              AspectRatio |-> c.AspectRatio, ImageSize |-> c.ImageSize,
              InputImageNames |-> e.Generation.InputImages, SourceEntryID |-> e.ID] : c \in ConfiguredSizes}

\* the Specs a caller hands to Run: a new generation, or the regeneration
\* of an entry of the store
RunSpecs == Specs \cup UNION {RegenerateSpecs(n) : n \in Complete}

\* the first output of a loaded entry, as the command line picks it
FirstOutput(e) == e.Result.OutputImages[1]

\* os.Stat(sourceImagePath) succeeds
SourceImageExists(path) ==
    LET d == hist[path.entry]
        files == IF path.edit = << >> THEN OutputNames(d) ELSE OutputNames(d.edits.items[path.edit])
    IN path.file \in files

\* runEdit on the output of the generation n: the entry must have an output
\* image and the file must exist
EditOfGeneration(n) ==
    LET e == loadEntry(hist[n]).entry
    IN IF Len(e.Result.OutputImages) = 0 \/ ~SourceImageExists(OutputPath(n, << >>, FirstOutput(e)))
       THEN {}
       ELSE {[BaseEditSpec EXCEPT !.EntryID = n, !.SourceOutput = FirstOutput(e),
                                  !.SourceImagePath = OutputPath(n, << >>, FirstOutput(e))]}

\* runEdit on the output of the edit x of the generation n
EditOfEdit(n, x) ==
    LET e == loadEditEntry(hist[n].edits.items[x]).entry
    IN IF Len(e.Result.OutputImages) = 0 \/ ~SourceImageExists(OutputPath(n, x, FirstOutput(e)))
       THEN {}
       ELSE {[BaseEditSpec EXCEPT !.EntryID = n, !.SourceType = "edit", !.SourceEditID = x,
                                  !.SourceOutput = FirstOutput(e),
                                  !.SourceImagePath = OutputPath(n, x, FirstOutput(e))]}

\* the EditSpecs a caller hands to Edit: those of runEdit, for an edit of a
\* generation's output or of an earlier edit's output, without and with the
\* flags for the aspect ratio and the image size, and, from a caller
\* that checks nothing, one with fields that are not valid and one for an
\* entry the store does not hold
EditSpecs ==
    UNION {EditOfGeneration(n) : n \in Complete}
    \cup UNION {UNION {EditOfEdit(n, x) : x \in CompleteEdits(n)} : n \in Complete}
    \cup {[spec EXCEPT !.AspectRatio = <<"1", "6", ":", "9">>, !.ImageSize = "2K"] :
             spec \in UNION {EditOfGeneration(n) : n \in Complete}}
    \cup {[spec EXCEPT !.Prompt = "", !.AspectRatio = <<"w", "i", "d", "e">>, !.ImageSize = "5K"] :
             spec \in UNION {EditOfGeneration(n) : n \in Complete}}
    \cup {[BaseEditSpec EXCEPT !.EntryID = MissingID,
                               !.SourceImagePath = OutputPath(MissingID, << >>, OutName(<< >>, 0))]}

\* ------------------------------------------------- values, yaml.Marshal
\* The store above keeps in a full meta.yaml the value the file decodes to.
\* This part models the values themselves: what a caller of the history
\* package holds in memory, what yaml.Marshal writes for it and what
\* yaml.Unmarshal reads back.  A document is a function from the keys that
\* are written to their values: a field tagged omitempty is left out when it
\* is zero (a list: when it has no elements; a struct: when every field is
\* zero), a list without that tag is written as [] whether it is nil or
\* empty, and decoding starts from the zero value, so a key that is absent
\* leaves a nil list and a key that is present makes a non-nil one.
MaxImages == 2

ImageLists == UNION {[1..n -> ExistingFiles] : n \in 0..MaxImages}

ZeroTokenUsage == [Prompt |-> 0, Candidates |-> 0, Total |-> 0, Cached |-> 0, Thoughts |-> 0]
TokenUsages ==
    {ZeroTokenUsage,
     [Prompt |-> 1, Candidates |-> 2, Total |-> 3, Cached |-> 0, Thoughts |-> 0],
     [Prompt |-> 1, Candidates |-> 2, Total |-> 3, Cached |-> 1, Thoughts |-> 1]}
\* history.Result with all its fields
Results ==
    [Success : BOOLEAN, OutputImages : {NilSlice, NewSlice(<< >>), NewSlice(<<OutName(IdString(2), 1)>>)},
     TokenUsage : TokenUsages, ErrorMessage : {"", "generation failed"}]
\* the Entry values a caller may hold; the input list, when it is not nil,
\* is a view of the array "a"
EntryValues ==
    [ID : {IdString(1)}, CreatedAt : {"2026-01-01T00:00:00Z"},
     Generation : [PromptFile : {"", PromptFile}, InputImages : {NilSlice, SliceOf("a")},
                   ContextFile : {"", ContextFile}, CharacterFile : {"", CharacterFile}],
     Result : Results]
\* the EditEntry values a caller may hold
EditEntryValues ==
    [ID : {IdString(3)}, CreatedAt : {"2026-01-01T00:00:00Z"},
     Source : [Type : {"generate", "edit"}, EditID : {<< >>, IdString(2)}, Output : {OutName(IdString(2), 1)}],
     Generation : [PromptFile : {"", EditPromptFile}, AspectRatio : {<< >>, <<"1", "6", ":", "9">>},
                   ImageSize : {"", "2K"}],
     Result : Results]

NoKeys == [x \in {} |-> ""]
\* a key that is always written
Key(k, v) == k :> v
\* a key tagged omitempty
OmitEmpty(k, v, isZero) == IF isZero THEN NoKeys ELSE k :> v
\* the value of a key, or the zero value the decoder started from
Field(doc, k, zero) == IF k \in DOMAIN doc THEN doc[k] ELSE zero
\* a list field
List(doc, k) == IF k \in DOMAIN doc THEN NewSlice(doc[k]) ELSE NilSlice

MarshalTokenUsage(u) ==
    Key("prompt", u.Prompt) @@ Key("candidates", u.Candidates) @@ Key("total", u.Total)
    @@ OmitEmpty("cached", u.Cached, u.Cached = 0) @@ OmitEmpty("thoughts", u.Thoughts, u.Thoughts = 0)
MarshalResult(r) ==
    Key("success", r.Success)
    @@ OmitEmpty("output_images", Elems(r.OutputImages), Len(Elems(r.OutputImages)) = 0)
    @@ OmitEmpty("token_usage", MarshalTokenUsage(r.TokenUsage), r.TokenUsage = ZeroTokenUsage)
    @@ OmitEmpty("error_message", r.ErrorMessage, r.ErrorMessage = "")
MarshalGeneration(g) ==
    Key("prompt_file", g.PromptFile) @@ Key("input_images", Elems(g.InputImages))
    @@ OmitEmpty("context_file", g.ContextFile, g.ContextFile = "")
    @@ OmitEmpty("character_file", g.CharacterFile, g.CharacterFile = "")
MarshalEntry(e) ==
    Key("id", e.ID) @@ Key("created_at", e.CreatedAt) @@ Key("generation", MarshalGeneration(e.Generation))
    @@ Key("result", MarshalResult(e.Result))
MarshalEditSource(s) ==
    Key("type", s.Type) @@ OmitEmpty("edit_id", s.EditID, s.EditID = << >>) @@ Key("output", s.Output)
MarshalEditGeneration(g) ==
    Key("prompt_file", g.PromptFile) @@ OmitEmpty("aspect_ratio", g.AspectRatio, g.AspectRatio = << >>)
    @@ OmitEmpty("image_size", g.ImageSize, g.ImageSize = "")
MarshalEditEntry(e) ==
    Key("id", e.ID) @@ Key("created_at", e.CreatedAt) @@ Key("source", MarshalEditSource(e.Source))
    @@ Key("generation", MarshalEditGeneration(e.Generation)) @@ Key("result", MarshalResult(e.Result))

UnmarshalTokenUsage(doc) ==
    [Prompt |-> Field(doc, "prompt", 0), Candidates |-> Field(doc, "candidates", 0),
     Total |-> Field(doc, "total", 0), Cached |-> Field(doc, "cached", 0), Thoughts |-> Field(doc, "thoughts", 0)]
UnmarshalResult(doc) ==
    [Success |-> Field(doc, "success", FALSE), OutputImages |-> List(doc, "output_images"),
     TokenUsage |-> UnmarshalTokenUsage(Field(doc, "token_usage", NoKeys)),
     ErrorMessage |-> Field(doc, "error_message", "")]
\* a decoder that does not know the key context_file
UnmarshalGeneration_NoContextFile(doc) ==
    [PromptFile |-> Field(doc, "prompt_file", ""), InputImages |-> List(doc, "input_images"),
     ContextFile |-> "", CharacterFile |-> Field(doc, "character_file", "")]
UnmarshalGeneration(doc) ==
    [PromptFile |-> Field(doc, "prompt_file", ""), InputImages |-> List(doc, "input_images"),
     ContextFile |-> Field(doc, "context_file", ""), CharacterFile |-> Field(doc, "character_file", "")]
UnmarshalEntry(doc) ==
    [ID |-> Field(doc, "id", << >>), CreatedAt |-> Field(doc, "created_at", ""),
     Generation |-> UnmarshalGeneration(Field(doc, "generation", NoKeys)),
     Result |-> UnmarshalResult(Field(doc, "result", NoKeys))]
UnmarshalEditSource(doc) ==
    [Type |-> Field(doc, "type", ""), EditID |-> Field(doc, "edit_id", << >>), Output |-> Field(doc, "output", << >>)]
UnmarshalEditGeneration(doc) ==
    [PromptFile |-> Field(doc, "prompt_file", ""), AspectRatio |-> Field(doc, "aspect_ratio", << >>),
     ImageSize |-> Field(doc, "image_size", "")]
UnmarshalEditEntry(doc) ==
    [ID |-> Field(doc, "id", << >>), CreatedAt |-> Field(doc, "created_at", ""),
     Source |-> UnmarshalEditSource(Field(doc, "source", NoKeys)),
     Generation |-> UnmarshalEditGeneration(Field(doc, "generation", NoKeys)),
     Result |-> UnmarshalResult(Field(doc, "result", NoKeys))]

\* the last lookup of a reader: the function, its arguments, the I/O
\* failure it met, and the pointer and the error chain it returned
NoLookup ==
    [op |-> "", parent |-> << >>, id |-> << >>, fault |-> "none", found |-> FALSE, entry |-> ZeroEntry,
     err |-> << >>]

\* What a caller holds: the value (an Entry or an EditEntry), the arrays its
\* lists share, the entry made from it, the list the value had when that
\* entry was made, the metadata file written for it with the error of Save,
\* and what was read back with the error of the read.
\* what a caller of a validator holds: the function, its argument and the
\* error it returned
NoValidation == [op |-> "", ctx |-> [AspectRatio |-> << >>, ImageSize |-> "", ImagePaths |-> << >>], err |-> << >>]

\* what a caller of Save holds next to the value: the directory of the
\* value's ID as it was before the first Save and as it is now, whether the
\* value was changed between the Saves, and the error and the directory
\* after each Save
NoSave ==
    [before |-> [exists |-> FALSE, dir |-> EmptyDir], disk |-> [exists |-> FALSE, dir |-> EmptyDir],
     revised |-> FALSE, errs |-> << >>, after |-> << >>]

NoMem ==
    [step |-> "none", kind |-> "", value |-> ZeroEntry, arrays |-> NoKeys, child |-> ZeroEntry, before |-> << >>,
     file |-> Absent, saveErr |-> "", loaded |-> ZeroEntry, loadErr |-> "", lookup |-> NoLookup,
     validation |-> NoValidation, save |-> NoSave]
Held(kind, value, list) ==
    [NoMem EXCEPT !.step = "held", !.kind = kind, !.value = value, !.arrays = Key("a", list)]

\* the caller makes a new entry from the one it holds
FromSource ==
    /\ mem.step = "held"
    /\ mem.kind = "entry"
    /\ mem' = [mem EXCEPT !.step = "derived", !.child = NewEntryFromSource(mem.value),
                          !.before = Elems(mem.value.Generation.InputImages)]
    /\ lastV7' = NewV7
    /\ UNCHANGED <<histExists, hist, pc, call, ret, pre, gen, returned, out, ncalls>>

\* the caller then overwrites an element of the list of the entry it holds
ChangeList ==
    /\ mem.step = "derived"
    /\ ~mem.value.Generation.InputImages.nil
    /\ \E i \in 1..Len(Elems(mem.value.Generation.InputImages)) :
         mem' = [mem EXCEPT !.step = "changed",
                            !.arrays[mem.value.Generation.InputImages.arr][i] = "modified.png"]
    /\ UNCHANGED <<histExists, hist, pc, call, ret, pre, lastV7, gen, returned, out, ncalls>>

\* the file as the store above holds it: a full file as the value it
\* decodes to
DecodedEntry(file) == IF file.st = "full" THEN Full(UnmarshalEntry(file.data)) ELSE file
DecodedEditEntry(file) == IF file.st = "full" THEN Full(UnmarshalEditEntry(file.data)) ELSE file

\* Entry.Save up to the return: MkdirAll, yaml.Marshal, os.WriteFile
SaveEntry ==
    /\ mem.step = "held"
    /\ mem.kind = "entry"
    /\ \/ mem' = [mem EXCEPT !.step = "saved", !.saveErr = "failed to create entry directory"]
       \/ mem' = [mem EXCEPT !.step = "saved", !.file = Full(MarshalEntry(mem.value))]
       \/ \E f \in WriteFileFailures(mem.file) \cup {Corrupt} :
            mem' = [mem EXCEPT !.step = "saved", !.file = f, !.saveErr = "failed to write meta.yaml"]
    /\ UNCHANGED <<histExists, hist, pc, call, ret, pre, lastV7, gen, returned, out, ncalls>>

\* GetEntryByID with the ID of the value that was saved
GetEntry ==
    /\ mem.step = "saved"
    /\ mem.kind = "entry"
    /\ LET r == loadEntry([meta |-> DecodedEntry(mem.file)])
       IN mem' = [mem EXCEPT !.step = "loaded", !.loaded = r.entry, !.loadErr = r.err]
    /\ UNCHANGED <<histExists, hist, pc, call, ret, pre, lastV7, gen, returned, out, ncalls>>

\* EditEntry.Save up to the return
SaveEditEntry ==
    /\ mem.step = "held"
    /\ mem.kind = "edit"
    /\ \/ mem' = [mem EXCEPT !.step = "saved", !.saveErr = "failed to create edit directory"]
       \/ mem' = [mem EXCEPT !.step = "saved", !.file = Full(MarshalEditEntry(mem.value))]
       \/ \E f \in WriteFileFailures(mem.file) \cup {Corrupt} :
            mem' = [mem EXCEPT !.step = "saved", !.file = f, !.saveErr = "failed to write edit-meta.yaml"]
    /\ UNCHANGED <<histExists, hist, pc, call, ret, pre, lastV7, gen, returned, out, ncalls>>

\* GetEditEntryByID with the ID of the value that was saved
GetEditEntry ==
    /\ mem.step = "saved"
    /\ mem.kind = "edit"
    /\ LET r == loadEditEntry([meta |-> DecodedEditEntry(mem.file)])
       IN mem' = [mem EXCEPT !.step = "loaded", !.loaded = r.entry, !.loadErr = r.err]
    /\ UNCHANGED <<histExists, hist, pc, call, ret, pre, lastV7, gen, returned, out, ncalls>>

\* A caller holds an Entry whose ID was drawn earlier, or an EditEntry; the
\* store is new and no call is in flight.
InitValues ==
    /\ mem \in {h \in {Held("entry", e, list) : e \in EntryValues, list \in ImageLists} :
                     h.value.Generation.InputImages.nil => h.arrays["a"] = << >>}
               \cup {Held("edit", e, << >>) : e \in EditEntryValues}
    /\ histExists = FALSE
    /\ hist = EmptyMap
    /\ pre = [exists |-> FALSE, hist |-> EmptyMap]
    /\ lastV7 = 1
    /\ returned = << >>
    /\ pc = "idle"
    /\ call = NoCall
    /\ ret = NoRet
    /\ gen = NoGen
    /\ out = {}
    /\ ncalls = 0

NextValues ==
    \/ FromSource
    \/ ChangeList
    \/ SaveEntry
    \/ GetEntry
    \/ SaveEditEntry
    \/ GetEditEntry

SpecValues == InitValues /\ [][NextValues]_vars

\* ---------------------------------------------------------------- lookups
\* A reader of the store between the calls.  Its reads may meet an I/O failure of the disk:
\* os.ReadDir fails ("readdir"), or every os.ReadFile fails ("readfile").
\* An error is the chain of messages that %w builds, the cause last.
IOFaults == {"none", "readdir", "readfile"}

\* a file, an edit directory, an entry directory and the store under
\* failing reads: a file that is there cannot be read
BrokenFile(f) == IF f.st = "absent" THEN f ELSE Unreadable
BrokenEditDir(d) == IF d.kind = "dir" THEN [d EXCEPT !.meta = BrokenFile(@)] ELSE d
BrokenDir(d) ==
    IF d.kind = "dir"
    THEN [d EXCEPT !.meta = BrokenFile(@), !.edits.items = [e \in DOMAIN @ |-> BrokenEditDir(@[e])]]
    ELSE d
Broken(h) == [n \in DOMAIN h |-> BrokenDir(h[n])]
\* the directory at a path that may not exist: reads below a missing path
\* find nothing
DirAt(h, n) == IF n \in DOMAIN h THEN h[n] ELSE EmptyDir
EditDirAt(d, e) == IF d.kind = "dir" /\ e \in DOMAIN d.edits.items THEN d.edits.items[e] ELSE EmptyEditDir
\* why os.ReadFile of the metadata in d failed
ReadCause(d) ==
    IF d.kind # "dir" THEN ENOTDIR
    ELSE IF d.meta.st = "absent" THEN ENOENT
    ELSE IF d.meta.st = "unreadable" THEN EIO
    ELSE ""
\* the error chain of loadEntry and loadEditEntry
LoadChain(err, d) == IF err = "" THEN << >> ELSE IF ReadCause(d) = "" THEN <<err>> ELSE <<err, ReadCause(d)>>

Found(e) == [found |-> TRUE, entry |-> e, err |-> << >>]
NotFound(err) == [found |-> FALSE, entry |-> ZeroEntry, err |-> err]

\* ListEntries with the reads of a disk that may be failing
ListEntriesOn(disk, fault) ==
    IF disk.exists /\ fault = "readdir" THEN [err |-> "failed to read history directory", list |-> << >>]
    ELSE ListEntries(IF fault = "readfile" THEN [disk EXCEPT !.hist = Broken(@)] ELSE disk)
ListEditEntriesOn(d, fault) ==
    IF d.kind # "dir" THEN [err |-> "failed to read edits directory", list |-> << >>]
    ELSE IF d.edits.exists /\ fault = "readdir" THEN [err |-> "failed to read edits directory", list |-> << >>]
    ELSE ListEditEntries(IF fault = "readfile" THEN BrokenDir(d) ELSE d)

\* GetLatestEntry returning the first entry of the list
GetLatestEntry_First(disk, fault) ==
    LET l == ListEntriesOn(disk, fault)
    IN IF l.err # "" THEN NotFound(<<l.err, EIO>>)
       ELSE IF Len(l.list) = 0 THEN NotFound(<<"no history entries found">>)
       ELSE Found(l.list[1])
GetLatestEntry(disk, fault) ==
    LET l == ListEntriesOn(disk, fault)
    IN IF l.err # "" THEN NotFound(<<l.err, EIO>>)
       ELSE IF Len(l.list) = 0 THEN NotFound(<<"no history entries found">>)
       ELSE Found(l.list[Len(l.list)])
GetLatestEditEntry(d, fault) ==
    LET l == ListEditEntriesOn(d, fault)
    IN IF l.err # "" THEN NotFound(<<l.err, IF d.kind # "dir" THEN ENOTDIR ELSE EIO>>)
       ELSE IF Len(l.list) = 0 THEN NotFound(<<"no edit entries found">>)
       ELSE Found(l.list[Len(l.list)])
GetEntryByID(disk, id, fault) ==
    LET d == DirAt(IF fault = "readfile" THEN Broken(disk.hist) ELSE disk.hist, id)
        r == IF d.kind = "dir" THEN loadEntry(d) ELSE loadEntry(EmptyDir)
    IN IF r.err # "" THEN NotFound(LoadChain(r.err, d)) ELSE Found(r.entry)
GetEditEntryByID(entryDir, id, fault) ==
    LET d == EditDirAt(IF fault = "readfile" THEN BrokenDir(entryDir) ELSE entryDir, id)
        r == IF d.kind = "dir" THEN loadEditEntry(d) ELSE loadEditEntry(EmptyEditDir)
    IN IF r.err # "" THEN NotFound(LoadChain(r.err, d)) ELSE Found(r.entry)

\* the IDs a reader asks for: the names in a directory that look like IDs,
\* and one that is in no directory
LookupIDs(h) == {n \in DOMAIN h : IsUUID(n)} \cup {MissingID}

Looked(op, parent, id, fault, r) ==
    /\ pc = "idle"
    /\ pc' = "looked"
    /\ mem' = [NoMem EXCEPT !.lookup = [op |-> op, parent |-> parent, id |-> id, fault |-> fault,
                                        found |-> r.found, entry |-> r.entry, err |-> r.err]]
    /\ UNCHANGED <<histExists, hist, call, ret, pre, lastV7, gen, returned, out, ncalls>>

LookupLatestEntry == \E fault \in IOFaults : Looked("GetLatestEntry", << >>, << >>, fault, GetLatestEntry(Disk, fault))
LookupEntryByID ==
    \E id \in LookupIDs(hist), fault \in {"none", "readfile"} :
        Looked("GetEntryByID", << >>, id, fault, GetEntryByID(Disk, id, fault))
LookupLatestEditEntry ==
    \E n \in Complete \cup {MissingID}, fault \in IOFaults :
        Looked("GetLatestEditEntry", n, << >>, fault, GetLatestEditEntry(DirAt(hist, n), fault))
LookupEditEntryByID ==
    \E n \in Complete, fault \in {"none", "readfile"} :
        \E id \in LookupIDs(hist[n].edits.items) :
            Looked("GetEditEntryByID", n, id, fault, GetEditEntryByID(hist[n], id, fault))
\* the reader is done with what it got
LookupDone ==
    /\ pc = "looked"
    /\ pc' = "idle"
    /\ mem' = NoMem
    /\ UNCHANGED <<histExists, hist, call, ret, pre, lastV7, gen, returned, out, ncalls>>

\* --------------------------------------------------------- the state machine
\* what other tools may have left in the history directory: a plain file, a
\* plain file with a UUID name, a directory with another name, and UUID
\* directories without metadata or with unreadable metadata
ForeignHist ==
    (<<9>> :> PlainFile) @@ (IdString(14) :> PlainFile) @@ (<<9, 9>> :> [EmptyDir EXCEPT !.meta = Full(ZeroEntry)])
    @@ (IdString(13) :> EmptyDir) @@ (IdString(12) :> [EmptyDir EXCEPT !.meta = Corrupt])

\* what one generation with a context and a character file and one Edit of
\* its output leave in a new store when nothing fails: entry 1 with the
\* output of run 2, and its edit 3 with the output of run 4
SeedEdit ==
    [kind |-> "dir", prompt |-> Full("blue"), outputs |-> {OutFile(IdString(4), 1, TRUE)},
     meta |-> Full([ID |-> IdString(3),
                    Source |-> [Type |-> "generate", EditID |-> << >>, Output |-> OutName(IdString(2), 1)],
                    Generation |-> [ZeroEditGeneration EXCEPT !.PromptFile = EditPromptFile],
                    Result |-> [Success |-> TRUE, OutputImages |-> <<OutName(IdString(4), 1)>>]])]
SeedEntry ==
    [kind |-> "dir", prompt |-> Full("red"), inputs |-> {"a.png"}, outputs |-> {OutFile(IdString(2), 1, TRUE)},
     meta |-> Full([ID |-> IdString(1),
                    Generation |-> [PromptFile |-> PromptFile, InputImages |-> <<"a.png">>,
                                    ContextFile |-> ContextFile, CharacterFile |-> CharacterFile],
                    Result |-> [Success |-> TRUE, OutputImages |-> <<OutName(IdString(2), 1)>>]]),
     edits |-> [exists |-> TRUE, items |-> (IdString(3) :> SeedEdit)]]
SeedHist == (IdString(1) :> SeedEntry) @@ ForeignHist

\* The store is new (no history directory), or it holds an entry with an
\* edit from earlier calls next to what other tools left there.
Init ==
    /\ \E d \in {[exists |-> FALSE, hist |-> EmptyMap, clock |-> 0, returned |-> << >>],
                  [exists |-> TRUE, hist |-> SeedHist, clock |-> 4, returned |-> <<IdString(1)>>]} :
         /\ histExists = d.exists
         /\ hist = d.hist
         /\ pre = [exists |-> d.exists, hist |-> d.hist]
         /\ lastV7 = d.clock
         /\ returned = d.returned
    /\ pc = "idle"
    /\ mem = NoMem
    /\ call = NoCall
    /\ ret = NoRet
    /\ gen = NoGen
    /\ out = {}
    /\ ncalls = 0

Next ==
    \/ \E spec \in RunSpecs : RunBegin(spec)
    \/ RunMkdirAll
    \/ RunSavePrompt
    \/ RunSaveInputImages
    \/ RunGenerate
    \/ RunCleanup
    \/ SaveImagesBegin
    \/ SaveImagesPart
    \/ SaveImagesEnd
    \/ RunSaveOpen
    \/ RunSaveWrite
    \/ \E spec \in EditSpecs : EditBegin(spec)
    \/ EditMkdirAll
    \/ EditSavePrompt
    \/ EditGenerate
    \/ EditCleanup
    \/ EditSaveOpen
    \/ EditSaveWrite

Spec == Init /\ [][Next]_vars

\* The stores a reader may find.  What the lookups return depends on
\* whether the history directory is there, on the names in it (an ID or not,
\* a directory or a file), on the state of each metadata file and on the
\* edits under an entry, so these are drawn from all combinations for two
\* IDs and one other name; the store the calls above start from is one
\* more.
MetaOf(e) == {Absent, Empty, Corrupt, Full(e)}
EditDirs(id) == {[EmptyEditDir EXCEPT !.meta = f] : f \in MetaOf([ZeroEditEntry EXCEPT !.ID = id])}
EditsShapes ==
    {NoEdits, [exists |-> TRUE, items |-> EmptyMap]}
    \cup {[exists |-> TRUE, items |-> (IdString(3) :> a)] : a \in EditDirs(IdString(3))}
    \cup {[exists |-> TRUE, items |-> (IdString(3) :> a) @@ (IdString(4) :> b)] :
             a \in EditDirs(IdString(3)), b \in EditDirs(IdString(4))}
EntryDirs(id, edits) ==
    {[EmptyDir EXCEPT !.meta = f, !.edits = x] : f \in MetaOf([ZeroEntry EXCEPT !.ID = id]), x \in edits}
\* a name bound to each of the things it may be, or not there at all
Named(n, things) == {EmptyMap} \cup {n :> PlainFile} \cup {n :> d : d \in things}
StoreShapes ==
    {a @@ b @@ c : a \in Named(IdString(1), EntryDirs(IdString(1), EditsShapes)),
                   b \in Named(IdString(2), EntryDirs(IdString(2), {NoEdits})),
                   c \in Named(<<9, 9>>, EntryDirs(IdString(5), {NoEdits}))}
    \cup {SeedHist}

InitLookup ==
    /\ \E d \in {[exists |-> FALSE, hist |-> EmptyMap]} \cup {[exists |-> TRUE, hist |-> h] : h \in StoreShapes} :
         /\ histExists = d.exists
         /\ hist = d.hist
         /\ pre = d
    /\ lastV7 = 5
    /\ returned = << >>
    /\ pc = "idle"
    /\ call = NoCall
    /\ ret = NoRet
    /\ gen = NoGen
    /\ out = {}
    /\ ncalls = 0
    /\ mem = NoMem

\* a reader of the store
NextLookup ==
    \/ LookupLatestEntry
    \/ LookupEntryByID
    \/ LookupLatestEditEntry
    \/ LookupEditEntryByID
    \/ LookupDone

SpecLookup == InitLookup /\ [][NextLookup]_vars

\* ------------------------------------------------- callers of the validators
\* the paths a request may name: files that exist, paths where nothing is,
\* and a path below a regular file
Paths == ExistingFiles \cup {"gone.png", "lost.png"} \cup BelowAFile
PathLists == UNION {[1..n -> Paths] : n \in 0..MaxImages}
AspectRatios ==
    { << >>, <<"1", "6", ":", "9">>, <<"1", ":", "1">>, <<"w", "i", "d", "e">>, <<"1", "6", ":">>, <<":", "9">>,
      <<"1", ":", "2", ":", "3">>, <<"1", "6", ":", "9", "\n">>, <<"1", "6", "9">> }
ImageSizes == {"", "1K", "2K", "4K", "5K", "2k"}
\* the parts of a Context the validation reads
Contexts == [AspectRatio : AspectRatios, ImageSize : ImageSizes, ImagePaths : PathLists]

Validated(op, ctx, err) ==
    /\ pc = "idle"
    /\ pc' = "validated"
    /\ mem' = [NoMem EXCEPT !.validation = [op |-> op, ctx |-> ctx, err |-> err]]
    /\ UNCHANGED <<histExists, hist, call, ret, pre, lastV7, gen, returned, out, ncalls>>

CallValidateInputImages ==
    \E paths \in PathLists :
        Validated("validateInputImages", [NoValidation.ctx EXCEPT !.ImagePaths = paths], validateInputImages(paths))
CallValidateContext == \E ctx \in Contexts : Validated("validateContext", ctx, validateContext(ctx))
\* the caller is done with the error
ValidateDone ==
    /\ pc = "validated"
    /\ pc' = "idle"
    /\ mem' = NoMem
    /\ UNCHANGED <<histExists, hist, call, ret, pre, lastV7, gen, returned, out, ncalls>>

InitValidate ==
    /\ histExists = FALSE
    /\ hist = EmptyMap
    /\ pre = [exists |-> FALSE, hist |-> EmptyMap]
    /\ lastV7 = 5
    /\ returned = << >>
    /\ pc = "idle"
    /\ call = NoCall
    /\ ret = NoRet
    /\ gen = NoGen
    /\ out = {}
    /\ ncalls = 0
    /\ mem = NoMem

NextValidate ==
    \/ CallValidateInputImages
    \/ CallValidateContext
    \/ ValidateDone

SpecValidate == InitValidate /\ [][NextValidate]_vars

\* --------------------------------------------------------- callers of Save
\* yaml.Marshal of the value
MarshalValue(kind, value) == IF kind = "entry" THEN MarshalEntry(value) ELSE MarshalEditEntry(value)
\* the directory os.MkdirAll makes when there is none
MadeDir(kind) == IF kind = "entry" THEN EmptyDir ELSE EmptyEditDir
\* after os.MkdirAll returned nil
Made(kind, disk) == IF disk.exists THEN disk ELSE [exists |-> TRUE, dir |-> MadeDir(kind)]

\* a Save that makes the directory anew
Save_Anew(kind, value, disk) ==
    {[disk |-> [exists |-> TRUE, dir |-> [MadeDir(kind) EXCEPT !.meta = Full(MarshalValue(kind, value))]],
      err |-> ""]}

\* Entry.Save and EditEntry.Save on the directory of the value's ID: the
\* directory afterwards and the error, for every way the system calls end
Save(kind, value, disk) ==
    {[disk |-> disk,
      err |-> IF kind = "entry" THEN "failed to create entry directory" ELSE "failed to create edit directory"]}
    \cup {[disk |-> [Made(kind, disk) EXCEPT !.dir.meta = Full(MarshalValue(kind, value))], err |-> ""]}
    \cup {[disk |-> [Made(kind, disk) EXCEPT !.dir.meta = f],
           err |-> IF kind = "entry" THEN "failed to write meta.yaml" ELSE "failed to write edit-meta.yaml"] :
             f \in WriteFileFailures(Made(kind, disk).dir.meta) \cup {Corrupt}}

\* the caller saves the value it holds, a first and a second time
CallSave ==
    /\ pc = "idle"
    /\ Len(mem.save.errs) < 2
    /\ \E r \in Save(mem.kind, mem.value, mem.save.disk) :
         mem' = [mem EXCEPT !.save.disk = r.disk, !.save.errs = Append(@, r.err),
                            !.save.after = Append(@, r.disk)]
    /\ UNCHANGED <<histExists, hist, pc, call, ret, pre, lastV7, gen, returned, out, ncalls>>

\* between the two Saves the caller records another result in the value
Revise ==
    /\ pc = "idle"
    /\ Len(mem.save.errs) = 1
    /\ ~mem.save.revised
    /\ mem' = [mem EXCEPT !.save.revised = TRUE, !.value.Result.Success = ~@,
                          !.value.Result.ErrorMessage = IF @ = "" THEN "generation failed" ELSE ""]
    /\ UNCHANGED <<histExists, hist, pc, call, ret, pre, lastV7, gen, returned, out, ncalls>>

\* the values of an earlier Save under the same IDs
EarlierEntry ==
    [ID |-> IdString(1), CreatedAt |-> "2026-01-01T00:00:00Z",
     Generation |-> [PromptFile |-> PromptFile, InputImages |-> NilSlice, ContextFile |-> "", CharacterFile |-> ""],
     Result |-> [Success |-> FALSE, OutputImages |-> NilSlice, TokenUsage |-> ZeroTokenUsage, ErrorMessage |-> ""]]
EarlierEditEntry ==
    [ID |-> IdString(3), CreatedAt |-> "2026-01-01T00:00:00Z",
     Source |-> [Type |-> "generate", EditID |-> << >>, Output |-> OutName(IdString(2), 1)],
     Generation |-> [PromptFile |-> EditPromptFile, AspectRatio |-> << >>, ImageSize |-> ""],
     Result |-> [Success |-> FALSE, OutputImages |-> NilSlice, TokenUsage |-> ZeroTokenUsage, ErrorMessage |-> ""]]

\* the directory of the value's ID before the first Save: none, one that
\* holds the files of a generation or of an edit without the metadata, and
\* one that holds the metadata too
SaveDirs(kind) ==
    IF kind = "entry"
    THEN {[exists |-> FALSE, dir |-> EmptyDir], [exists |-> TRUE, dir |-> [SeedEntry EXCEPT !.meta = Absent]],
          [exists |-> TRUE, dir |-> [SeedEntry EXCEPT !.meta = Full(MarshalEntry(EarlierEntry))]]}
    ELSE {[exists |-> FALSE, dir |-> EmptyEditDir], [exists |-> TRUE, dir |-> [SeedEdit EXCEPT !.meta = Absent]],
          [exists |-> TRUE, dir |-> [SeedEdit EXCEPT !.meta = Full(MarshalEditEntry(EarlierEditEntry))]]}

InitSave ==
    /\ mem \in UNION {{[h EXCEPT !.save.before = d, !.save.disk = d] : d \in SaveDirs(h.kind)} :
                        h \in {Held("entry", e, <<"a.png">>) :
                                  e \in {x \in EntryValues : x.Result.TokenUsage = ZeroTokenUsage}}
                              \cup {Held("edit", e, << >>) :
                                       e \in {x \in EditEntryValues : x.Result.TokenUsage = ZeroTokenUsage}}}
    /\ histExists = FALSE
    /\ hist = EmptyMap
    /\ pre = [exists |-> FALSE, hist |-> EmptyMap]
    /\ lastV7 = 5
    /\ returned = << >>
    /\ pc = "idle"
    /\ call = NoCall
    /\ ret = NoRet
    /\ gen = NoGen
    /\ out = {}
    /\ ncalls = 0

NextSave ==
    \/ CallSave
    \/ Revise

SpecSave == InitSave /\ [][NextSave]_vars

\* ================================================================== claims
\* a call has returned and nothing runs
Returned(op) == pc = "idle" /\ ret.kind # "none" /\ ret.op = op
\* err wraps or is the message m
Contains(err, m) == \E i \in 1..Len(err) : err[i] = m
\* the IDs of a list of entries, in list order
IDs(list) == [i \in 1..Len(list) |-> list[i].ID]

\* The Specs of the validation tests: a malformed aspect ratio, a size
\* outside 1K, 2K, 4K, no input image, an input file that does not exist.
BadAspectRatios == { <<"w", "i", "d", "e">>, <<"1", "6", ":">> }
BadImageSizes == {"5K"}
FailsValidation(spec) ==
    \/ spec.AspectRatio \in BadAspectRatios
    \/ spec.ImageSize \in BadImageSizes
    \/ spec.ImagePaths = << >>
    \/ \E i \in 1..Len(spec.ImagePaths) : spec.ImagePaths[i] \notin ExistingFiles

C2_GeneratorErrorKeepsListing ==
    (Returned("run") /\ gen.failed) =>
        /\ ret.kind = "err"
        /\ Contains(ret.err, "failed to generate image")
        /\ ListEntries(Disk) = ListEntries(pre)

\* C2 witness: the Generator failed, the removal of the entry directory
\* failed too, and the store held an entry before.
C2_Witness ==
    /\ Returned("run")
    /\ gen.failed
    /\ ret.attempt \in DOMAIN hist
    /\ Len(ListEntries(pre).list) > 0

\* C3 as stated: after a Generator error the disk is exactly as before the
\* call, the existence of the history directory included.
C3_Original ==
    (Returned("run") /\ gen.failed) => Disk = pre

\* C3 amended: after a Generator error Run has called Cleanup; unless the
\* removal itself failed (a warning), the new entry directory does not
\* exist and everything that was under the history directory is as before.
\* In every case nothing but the new directory has changed under it; the
\* history directory itself exists afterwards, created if it was missing.
C3_GeneratorErrorRollsBack ==
    (Returned("run") /\ gen.failed) =>
        /\ histExists
        /\ Del(hist, ret.attempt) = pre.hist
        /\ ("Warning: failed to clean up history directory" \notin out) => hist = pre.hist

\* C3 witness: a cancelled Generator call on a store without a history
\* directory, rolled back.
C3_Witness ==
    /\ Returned("run")
    /\ gen.failed
    /\ Contains(ret.err, "context canceled")
    /\ ~pre.exists
    /\ hist = pre.hist

\* C4 as stated: a Run or Edit that returns an error leaves no directory of
\* the failed attempt on disk.
C4_Original ==
    /\ (Returned("run") /\ ret.kind = "err") => ret.attempt \notin DOMAIN hist
    /\ (Returned("edit") /\ ret.kind = "err" /\ ret.spec.EntryID \in DOMAIN hist
            /\ hist[ret.spec.EntryID].kind = "dir") =>
          ret.attempt \notin DOMAIN hist[ret.spec.EntryID].edits.items

\* C5 as stated: while a Run is in flight a reader never lists the entry of
\* the attempt; it becomes listable only with its final Result on disk.
C5_Original ==
    (pc # "idle" /\ call.op = "run") => call.id \notin Listable

AllMetadataWritten == \A i \in 1..Len(returned) : hist[returned[i]].meta.st = "full"

Qualifying == {n \in DOMAIN hist : hist[n].kind = "dir" /\ IsUUID(n) /\ hist[n].meta.st \in {"full", "empty"}}
\* the entry the metadata of directory n holds
Parsed(n) == IF hist[n].meta.st = "full" THEN hist[n].meta.data ELSE ZeroEntry

\* C7: ListEntries returns, without an error, exactly the entries of the
\* subdirectories whose name is a valid ID and whose metadata loads and
\* parses, in ascending ID order; a missing history directory gives the
\* empty list.
C7_ListEntriesFilters ==
    LET l == ListEntries(Disk)
    IN /\ l.err = ""
       /\ ~histExists => l.list = << >>
       /\ Len(l.list) = Cardinality(Qualifying)
       /\ \A n \in Qualifying : \E i \in 1..Len(l.list) : l.list[i] = Parsed(n)
       /\ \A i \in 1..Len(l.list) : \E n \in Qualifying : l.list[i] = Parsed(n)
       /\ \A i \in 1..(Len(l.list) - 1) : ~StrLess(l.list[i + 1].ID, l.list[i].ID)

\* C7 witness: a history directory with two listed entries next to a plain
\* file, a directory with another name and directories with missing and
\* with corrupt metadata.
C7_Witness ==
    /\ Len(ListEntries(Disk).list) >= 2
    /\ \E n \in DOMAIN hist : hist[n].kind = "file"
    /\ \E n \in DOMAIN hist : hist[n].kind = "dir" /\ ~IsUUID(n)
    /\ \E n \in DOMAIN hist : hist[n].kind = "dir" /\ IsUUID(n) /\ hist[n].meta.st = "absent"
    /\ \E n \in DOMAIN hist : hist[n].kind = "dir" /\ IsUUID(n) /\ hist[n].meta.st = "corrupt"

\* the number of images in a response
ImageCount(resp) == Cardinality({i \in 1..Len(resp.parts) : resp.parts[i] = "img"})
\* the Generator answered the call with at least one image
GotImages == gen.count = 1 /\ ~gen.failed /\ ImageCount(gen.resp) >= 1

\* C8 as stated: when the Generator returns k >= 1 images Run returns an
\* EntryID and k output names, ListEntries grows by one entry, and the entry
\* directory holds k output files, meta.yaml and prompt.txt.
C8_Original ==
    (Returned("run") /\ GotImages) =>
        /\ ret.kind = "ok"
        /\ Len(ret.outputs) = ImageCount(gen.resp)
        /\ Len(ListEntries(Disk).list) = Len(ListEntries(pre).list) + 1
        /\ ret.id \in DOMAIN hist
        /\ Cardinality(OutputNames(hist[ret.id])) = ImageCount(gen.resp)
        /\ hist[ret.id].meta.st # "absent"
        /\ hist[ret.id].prompt.st # "absent"

\* SaveImages reported that it could not write to the directory
WriteError ==
    \/ Contains(ret.err, "failed to create output directory")
    \/ Contains(ret.err, "failed to save image")

\* C8 amended: when the Generator returns k >= 1 images for a valid Spec,
\* then unless SaveImages fails to write to the directory, Run returns an EntryID
\* and exactly k output names and the entry directory holds exactly those k
\* output files and prompt.txt; unless the write of meta.yaml fails as well
\* (Run only warns), meta.yaml is there too and ListEntries has grown by
\* exactly the new entry.
C8_SuccessfulRunIsRecorded ==
    (Returned("run") /\ GotImages /\ ~WriteError) =>
        /\ ret.kind = "ok"
        /\ ret.id # << >>
        /\ Len(ret.outputs) = ImageCount(gen.resp)
        /\ ret.id \in DOMAIN hist
        /\ hist[ret.id].outputs = {OutFile(ret.outputs[i].run, ret.outputs[i].n, TRUE) : i \in 1..Len(ret.outputs)}
        /\ Cardinality(hist[ret.id].outputs) = ImageCount(gen.resp)
        /\ hist[ret.id].prompt = Full(ret.spec.Prompt)
        /\ ("Warning: failed to save history" \notin out) =>
              /\ hist[ret.id].meta.st = "full"
              /\ Len(ListEntries(Disk).list) = Len(ListEntries(pre).list) + 1
              /\ \A i \in 1..Len(ListEntries(pre).list) : ListEntries(Disk).list[i] = ListEntries(pre).list[i]
              /\ ListEntries(Disk).list[Len(ListEntries(Disk).list)].ID = ret.id

\* C8 witness: the Generator returned two images and Run recorded them in a
\* store that held an entry already.
C8_Witness ==
    /\ Returned("run")
    /\ GotImages
    /\ ImageCount(gen.resp) = 2
    /\ ret.kind = "ok"
    /\ Len(ListEntries(Disk).list) = 2
    /\ "Warning: failed to save history" \notin out

\* the directory of the parent entry of the last Edit, before and after
ParentBefore == pre.hist[ret.spec.EntryID]
ParentAfter == hist[ret.spec.EntryID]
\* the last Edit was made on an entry the store held
HadParent == ret.spec.EntryID \in DOMAIN pre.hist /\ pre.hist[ret.spec.EntryID].kind = "dir"

\* C9 as stated: after a failed Generator call of an Edit the new edit
\* directory is gone and the parent entry is as before.
C9_Original ==
    (Returned("edit") /\ gen.failed /\ HadParent) =>
        /\ ret.attempt \notin DOMAIN ParentAfter.edits.items
        /\ ParentAfter.meta = ParentBefore.meta
        /\ \A e \in DOMAIN ParentBefore.edits.items : ParentAfter.edits.items[e] = ParentBefore.edits.items[e]
        /\ ListEditEntries(ParentAfter) = ListEditEntries(ParentBefore)

\* C9 amended: when the Generator call of an Edit fails, Edit returns an
\* error and calls Cleanup on the new edit directory, which is then gone
\* unless the removal itself failed (a warning); in every case the parent
\* entry's metadata, prompt, input copies, output images and earlier edit
\* entries are as before the call and ListEditEntries returns the same
\* edits.
C9_EditFailureKeepsParent ==
    (Returned("edit") /\ gen.failed /\ HadParent) =>
        /\ ret.kind = "err"
        /\ ("Warning: failed to clean up edit directory" \notin out) =>
              ret.attempt \notin DOMAIN ParentAfter.edits.items
        /\ ParentAfter.meta = ParentBefore.meta
        /\ ParentAfter.prompt = ParentBefore.prompt
        /\ ParentAfter.inputs = ParentBefore.inputs
        /\ ParentAfter.outputs = ParentBefore.outputs
        /\ \A e \in DOMAIN ParentBefore.edits.items :
              /\ e \in DOMAIN ParentAfter.edits.items
              /\ ParentAfter.edits.items[e] = ParentBefore.edits.items[e]
        /\ ListEditEntries(ParentAfter) = ListEditEntries(ParentBefore)

\* C9 witness: the Generator failed in an Edit of an entry that had an
\* edit, and the new edit directory was removed.
C9_Witness ==
    /\ Returned("edit")
    /\ gen.failed
    /\ HadParent
    /\ Len(ListEditEntries(ParentBefore).list) > 0
    /\ ret.attempt \notin DOMAIN ParentAfter.edits.items

\* Run returned because SaveImages failed after a successful Generator call
SaveFailed == Returned("run") /\ gen.count = 1 /\ ~gen.failed /\ ret.kind = "err"

\* C10 as stated: when persisting the images fails, Run returns an error
\* and the entry directory is removed.
C10_Original ==
    SaveFailed => ret.attempt \notin DOMAIN hist

\* C10 amended: when persisting the returned images fails after a
\* successful Generator call, Run returns the error and calls Cleanup; the
\* entry directory with prompt, input copies and output images is then
\* gone unless the removal itself failed (a warning), and no metadata was
\* written in either case.
C10_SaveFailureRollsBack ==
    SaveFailed =>
        /\ ~Contains(ret.err, "failed to generate image")
        /\ ("Warning: failed to clean up history directory" \notin out) =>
              /\ ret.attempt \notin DOMAIN hist
              /\ hist = pre.hist
        /\ ret.attempt \in DOMAIN hist => hist[ret.attempt].meta.st = "absent"
        /\ ListEntries(Disk) = ListEntries(pre)

\* C10 witness: the write of the second image failed and the directory,
\* which held the first image, is gone.
C10_Witness ==
    /\ SaveFailed
    /\ Contains(ret.err, "failed to save image")
    /\ ImageCount(gen.resp) = 2
    /\ ret.attempt \notin DOMAIN hist
    /\ pre.exists

\* the edit entries persisted on disk, as pairs of parent and edit directory
PersistedEdits ==
    {x \in UNION {{<<n, e>> : e \in DOMAIN hist[n].edits.items} : n \in {m \in DOMAIN hist : hist[m].kind = "dir"}} :
        hist[x[1]].edits.items[x[2]].kind = "dir" /\ hist[x[1]].edits.items[x[2]].meta.st = "full"}
\* the EditEntry persisted in edit directory e of entry n
PersistedEdit(n, e) == hist[n].edits.items[e].meta.data
\* the last Edit succeeded and its edit entry is persisted
EditPersisted ==
    /\ Returned("edit")
    /\ ret.kind = "ok"
    /\ <<ret.spec.EntryID, ret.id>> \in PersistedEdits
\* the image the last call handed to the Generator
EditedImage == gen.params.ImagePaths[1]

\* C11: every persisted EditEntry has Source.Type "generate" with an empty
\* Source.EditID or "edit" with a Source.EditID, and the EditEntry an Edit
\* persists has Source.Type "edit" exactly when the image it edited is an
\* output in the directory of another edit entry, which Source then names.
C11_SourceTypeTellsTheSource ==
    /\ \A x \in PersistedEdits :
          LET src == PersistedEdit(x[1], x[2]).Source
          IN /\ src.Type \in {"generate", "edit"}
             /\ src.Type = "generate" => src.EditID = << >>
             /\ src.Type = "edit" => (src.EditID # << >> /\ src.EditID # x[2])
    /\ EditPersisted =>
          LET src == PersistedEdit(ret.spec.EntryID, ret.id).Source
          IN /\ src.Type = "edit" <=> EditedImage.edit # << >>
             /\ src.EditID = EditedImage.edit
             /\ src.Output = EditedImage.file

\* C11 witness: an Edit of the output of an earlier edit was persisted.
C11_Witness ==
    /\ EditPersisted
    /\ EditedImage.edit # << >>
    /\ PersistedEdit(ret.spec.EntryID, ret.id).Source.Type = "edit"

\* C12: for every persisted EditEntry whose Source.Type is "edit",
\* Source.EditID names an edit directory under the same parent entry, and
\* that ID is smaller than the EditEntry's own.
C12_SourcePointsBackward ==
    \A x \in PersistedEdits :
        LET e == PersistedEdit(x[1], x[2])
        IN e.Source.Type = "edit" =>
              /\ e.Source.EditID \in DOMAIN hist[x[1]].edits.items
              /\ hist[x[1]].edits.items[e.Source.EditID].kind = "dir"
              /\ StrLess(e.Source.EditID, e.ID)
              /\ e.ID = x[2]

\* C12 witness: a persisted edit of an edit, with the edit it points at
\* persisted under the same parent.
C12_Witness ==
    /\ pc = "idle"
    /\ \E x \in PersistedEdits :
          /\ PersistedEdit(x[1], x[2]).Source.Type = "edit"
          /\ <<x[1], PersistedEdit(x[1], x[2]).Source.EditID>> \in PersistedEdits

\* what ListEditEntries returned for the parent before the last Edit
EditsBefore == IF HadParent THEN ListEditEntries(ParentBefore).list ELSE << >>

EditFailsValidation(spec) ==
    \/ spec.Prompt = ""
    \/ spec.AspectRatio \in BadAspectRatios
    \/ spec.ImageSize \in BadImageSizes

\* C14 as stated, for Edit: an Edit with an empty prompt, a bad aspect ratio
\* or a bad image size returns an error, leaves the disk as it was and does
\* not call the Generator.
C14_Original ==
    (Returned("edit") /\ EditFailsValidation(ret.spec)) =>
        (ret.kind = "err" /\ Disk = pre /\ gen.count = 0)

\* the Generator is about to be invoked by Run
AtGenerate == pc = "run_generate"
\* the files of a sequence of paths
FilesOf(paths) == {paths[i] : i \in 1..Len(paths)}

\* C15 as stated: when Run invokes the Generator, the prompt file and a copy
\* of every input image are in the new entry directory.
C15_Original ==
    AtGenerate =>
        /\ hist[call.id].prompt = Full(call.spec.Prompt)
        /\ hist[call.id].inputs = FilesOf(call.spec.ImagePaths)

\* C15 amended: when Run invokes the Generator, the new entry directory
\* exists and holds the prompt file with the prompt; it holds a copy of
\* every input image unless copying failed, which Run only warns about
\* ("failed to save input images") before it goes on to the Generator.
C15_WriteAheadBeforeGenerate ==
    AtGenerate =>
        /\ gen.count = 0
        /\ call.id \in DOMAIN hist
        /\ hist[call.id].kind = "dir"
        /\ hist[call.id].prompt = Full(call.spec.Prompt)
        /\ hist[call.id].inputs \subseteq FilesOf(call.spec.ImagePaths)
        /\ ("Warning: failed to save input images" \notin out) =>
              hist[call.id].inputs = FilesOf(call.spec.ImagePaths)

\* C15 witness: the Generator is about to be invoked with the prompt and
\* both input images copied.
C15_Witness ==
    /\ AtGenerate
    /\ Len(call.spec.ImagePaths) = 2
    /\ Cardinality(hist[call.id].inputs) = 2
    /\ hist[call.id].prompt.st = "full"

\* the directories under the history directory that hold an edit directory
WithEdits == {n \in DOMAIN hist : hist[n].kind = "dir" /\ DOMAIN hist[n].edits.items # {}}
\* the last Edit named an EntryID that ListEntries did not list
NoSuchEntry ==
    \A i \in 1..Len(ListEntries(pre).list) : ListEntries(pre).list[i].ID # ret.spec.EntryID

\* C16 as stated: every edit directory lies under the directory of a
\* listable entry, and an Edit for an EntryID that has no entry creates
\* nothing.
C16_Original ==
    /\ WithEdits \subseteq Listable
    /\ (Returned("edit") /\ NoSuchEntry) => (ret.kind = "err" /\ Disk = pre)

\* the last Run regenerated an entry and its own entry is persisted
Regenerated ==
    /\ Returned("run")
    /\ ret.kind = "ok"
    /\ ret.spec.SourceEntryID # << >>
    /\ hist[ret.id].meta.st = "full"
\* the source entry of the last Run, as it was loaded before the call
SourceEntry == loadEntry(pre.hist[ret.spec.SourceEntryID]).entry

\* C17 as stated: a Run with SourceEntryID set persists a new entry with
\* another ID that carries the Generation metadata of the source entry, and
\* leaves the directory of the source entry as it was.
C17_Original ==
    Regenerated =>
        /\ hist[ret.id].meta.data.ID # SourceEntry.ID
        /\ hist[ret.id].meta.data.Generation = SourceEntry.Generation
        /\ hist[ret.spec.SourceEntryID] = pre.hist[ret.spec.SourceEntryID]

\* the entry the caller holds and the entry made from it
Parent == mem.value
Child == mem.child
\* an entry was made from the one the caller holds
Derived == mem.step \in {"derived", "changed"}

\* C18: NewEntryFromSource(parent) returns an entry whose ID differs from
\* the parent's and whose PromptFile, InputImages, ContextFile and
\* CharacterFile equal the parent's; the list is a copy: after an element of
\* the parent's list is overwritten the child still has the elements the
\* parent had at the call.
C18_FromSourceCopiesGeneration ==
    Derived =>
        /\ Child.ID # Parent.ID
        /\ Child.Generation.PromptFile = Parent.Generation.PromptFile
        /\ Child.Generation.ContextFile = Parent.Generation.ContextFile
        /\ Child.Generation.CharacterFile = Parent.Generation.CharacterFile
        /\ Elems(Child.Generation.InputImages) = mem.before
        /\ mem.step = "derived" => Elems(Child.Generation.InputImages) = Elems(Parent.Generation.InputImages)

\* C18 witness: the parent had a context file, a character file and two
\* input images, its first image was overwritten after the call, and the
\* child still names the two images.
C18_Witness ==
    /\ mem.step = "changed"
    /\ Len(mem.before) = MaxImages
    /\ Parent.Generation.ContextFile # ""
    /\ Parent.Generation.CharacterFile # ""
    /\ Elems(Parent.Generation.InputImages)[1] = "modified.png"
    /\ Elems(Child.Generation.InputImages) = mem.before

\* two lists with the same elements; deep: as reflect.DeepEqual compares
\* them, both nil or both non-nil as well
EqualList(s, t, deep) == Elems(s) = Elems(t) /\ (deep => s.nil = t.nil)
\* two values equal in every field
EqualResult(a, b, deep) ==
    /\ a.Success = b.Success
    /\ EqualList(a.OutputImages, b.OutputImages, deep)
    /\ a.TokenUsage = b.TokenUsage
    /\ a.ErrorMessage = b.ErrorMessage
EqualEntry(a, b, deep) ==
    /\ a.ID = b.ID
    /\ a.CreatedAt = b.CreatedAt
    /\ a.Generation.PromptFile = b.Generation.PromptFile
    /\ EqualList(a.Generation.InputImages, b.Generation.InputImages, deep)
    /\ a.Generation.ContextFile = b.Generation.ContextFile
    /\ a.Generation.CharacterFile = b.Generation.CharacterFile
    /\ EqualResult(a.Result, b.Result, deep)
EqualEditEntry(a, b, deep) ==
    /\ a.ID = b.ID
    /\ a.CreatedAt = b.CreatedAt
    /\ a.Source = b.Source
    /\ a.Generation = b.Generation
    /\ EqualResult(a.Result, b.Result, deep)
EqualValue(a, b, deep) == IF mem.kind = "entry" THEN EqualEntry(a, b, deep) ELSE EqualEditEntry(a, b, deep)
\* Save returned nil and the value was then read by its ID
SavedAndRead == mem.step = "loaded" /\ mem.saveErr = ""

\* C19 as stated: for every Entry and EditEntry value, Save followed by
\* GetEntryByID or GetEditEntryByID with the same ID returns a value
\* deep-equal to the saved one.
C19_Original == SavedAndRead => mem.loadErr = "" /\ EqualValue(mem.loaded, mem.value, TRUE)

\* C19 amended: the value read back equals the saved one in every field,
\* lists compared by their elements (a nil list and an empty one are not
\* told apart), also when optional fields are zero and left out of the file.
C19_SaveThenGetKeepsContent == SavedAndRead => mem.loadErr = "" /\ EqualValue(mem.loaded, mem.value, FALSE)

\* C19 witness: an Entry with a prompt file, a context file and input
\* images but no character file, no output images, no token usage and no
\* error message was saved without those keys and read back.
C19_Witness ==
    /\ SavedAndRead
    /\ mem.kind = "entry"
    /\ mem.value.Generation.ContextFile = ContextFile
    /\ Len(Elems(mem.value.Generation.InputImages)) = MaxImages
    /\ mem.value.Generation.CharacterFile = ""
    /\ mem.value.Result.OutputImages = NilSlice
    /\ mem.value.Result.TokenUsage = ZeroTokenUsage
    /\ DOMAIN mem.file.data["generation"] = {"prompt_file", "input_images", "context_file"}
    /\ DOMAIN mem.file.data["result"] = {"success"}
    /\ mem.loaded.Generation.ContextFile = ContextFile

\* the last call returned before it reached the Generator: its request
\* failed validation, or the write-ahead step (the directory, the prompt
\* file) failed
StoppedEarly ==
    /\ ret.kind = "err"
    /\ \/ ret.op = "run" /\ validateSpec(ret.spec) # << >>
       \/ ret.err[1] \in {"failed to create history directory", "failed to save prompt",
                          "failed to create edit directory", "failed to save edit prompt"}
\* the Generator is invoked at most once per call, once in every call that
\* got past validation and the write-ahead step, and not again after it
\* returned an error
InvokedOncePastWriteAhead ==
    /\ gen.count <= 1
    /\ pc \in {"run_cleanup", "edit_cleanup", "saveimages", "saveimages_part", "run_save", "run_save_write",
               "edit_save", "edit_save_write"} => gen.count = 1
    /\ Returned("run") \/ Returned("edit") => gen.count = IF StoppedEarly THEN 0 ELSE 1

\* C20 as stated: in every Run or Edit call the Generator is invoked at
\* most once, exactly once when validation and the write-ahead step
\* succeed, never after a Generator error, and never when the request fails
\* validation (for Edit: an empty prompt, a bad aspect ratio or a bad size).
C20_Original ==
    /\ InvokedOncePastWriteAhead
    /\ call.op = "edit" /\ EditFailsValidation(call.spec) => gen.count = 0

\* Save failed at the end of the last call: the warning Run and Edit print
MetadataWarning ==
    \/ ret.op = "run" /\ "Warning: failed to save history" \in out
    \/ ret.op = "edit" /\ "Warning: failed to save edit metadata" \in out
\* the directory the last call wrote into
ResultDir == IF ret.op = "run" THEN hist[ret.attempt] ELSE hist[ret.spec.EntryID].edits.items[ret.attempt]
\* the output files named by a list of output names, completely written
FilesNamed(names) == {OutFile(names[i].run, names[i].n, TRUE) : i \in 1..Len(names)}

\* C21: if the metadata write fails after the output images were saved,
\* Run (and likewise Edit) still returns success with the new ID and the
\* output names, only emitting a warning, and the saved images stay in the
\* new directory.
C21_MetadataFailureIsOnlyAWarning ==
    ((Returned("run") \/ Returned("edit")) /\ MetadataWarning) =>
        /\ ret.kind = "ok"
        /\ ret.id = ret.attempt
        /\ ret.id # << >>
        /\ Len(ret.outputs) = ImageCount(gen.resp)
        /\ Len(ret.outputs) >= 1
        /\ ResultDir.kind = "dir"
        /\ ResultDir.outputs = FilesNamed(ret.outputs)
        /\ ResultDir.meta.st # "full"

\* C21 witness: an Edit saved its image, the write of edit-meta.yaml left a
\* truncated file, and Edit returned the new ID and the output name.
C21_Witness ==
    /\ Returned("edit")
    /\ MetadataWarning
    /\ ret.kind = "ok"
    /\ ResultDir.meta.st = "corrupt"
    /\ ResultDir.outputs = FilesNamed(ret.outputs)
    /\ Len(ret.outputs) >= 1

\* the last lookup, once it has returned
L == mem.lookup
AfterLookup(op) == pc = "looked" /\ L.op = op
\* the test a caller can apply to the error of a lookup: one of the two
\* "no ... entries found" messages, or a chain that ends in ENOENT
\* (errors.Is(err, fs.ErrNotExist))
IsNotFound(err) ==
    \/ err \in {<<"no history entries found">>, <<"no edit entries found">>}
    \/ Len(err) > 0 /\ err[Len(err)] = ENOENT
\* what the lookup asked for is not in the store: the store or the edits of
\* the parent are empty, or nothing has the ID
NothingThere ==
    \/ L.op = "GetLatestEntry" /\ DOMAIN hist = {}
    \/ L.op = "GetEntryByID" /\ L.id \notin DOMAIN hist
    \/ L.op = "GetLatestEditEntry" /\ DOMAIN DirAt(hist, L.parent).edits.items = {}
    \/ L.op = "GetEditEntryByID" /\ L.id \notin DOMAIN hist[L.parent].edits.items
\* a directory with a metadata file in it
HasMeta(d) == d.kind = "dir" /\ d.meta.st # "absent"
\* a read of the lookup met the I/O failure of the disk
IOFailed ==
    \/ /\ L.fault = "readdir"
       /\ \/ L.op = "GetLatestEntry" /\ histExists
          \/ L.op = "GetLatestEditEntry" /\ DirAt(hist, L.parent).edits.exists
    \/ /\ L.fault = "readfile"
       /\ \/ L.op = "GetLatestEntry" /\ \E n \in DOMAIN hist : IsUUID(n) /\ HasMeta(hist[n])
          \/ L.op = "GetEntryByID" /\ L.id \in DOMAIN hist /\ HasMeta(hist[L.id])
          \/ /\ L.op = "GetLatestEditEntry"
             /\ \E e \in DOMAIN DirAt(hist, L.parent).edits.items :
                   IsUUID(e) /\ HasMeta(DirAt(hist, L.parent).edits.items[e])
          \/ /\ L.op = "GetEditEntryByID"
             /\ L.id \in DOMAIN hist[L.parent].edits.items
             /\ HasMeta(hist[L.parent].edits.items[L.id])

\* C22 as stated: looking up the latest entry of an empty store, or an
\* entry or edit by an ID that does not exist, reports a NotFound error,
\* and a lookup that met an I/O failure of the disk does not report an
\* error that a caller takes for NotFound.
C22_Original ==
    pc = "looked" =>
        /\ (NothingThere /\ ~IOFailed) => (~L.found /\ IsNotFound(L.err))
        /\ IOFailed => ~IsNotFound(L.err)

\* C23: GetLatestEntry never returns a nil entry with a nil error; when the
\* store has no listable entry it returns an error, and otherwise the
\* listable entry with the greatest ID.  GetLatestEditEntry does the same
\* for the edits of one parent entry.
C23_LatestIsGreatestOrError ==
    /\ AfterLookup("GetLatestEntry") =>
          /\ L.found <=> L.err = << >>
          /\ L.fault = "none" =>
                IF Listable = {} THEN ~L.found
                ELSE /\ L.found
                     /\ L.entry \in {loadEntry(hist[n]).entry : n \in Listable}
                     /\ \A n \in Listable : ~StrLess(L.entry.ID, loadEntry(hist[n]).entry.ID)
    /\ AfterLookup("GetLatestEditEntry") =>
          /\ L.found <=> L.err = << >>
          /\ L.fault = "none" =>
                IF ListableEdits(L.parent) = {} THEN ~L.found
                ELSE /\ L.found
                     /\ L.entry \in {loadEditEntry(hist[L.parent].edits.items[e]).entry :
                                        e \in ListableEdits(L.parent)}
                     /\ \A e \in ListableEdits(L.parent) :
                           ~StrLess(L.entry.ID, loadEditEntry(hist[L.parent].edits.items[e]).entry.ID)

\* C23 witness: the store holds two listable entries and GetLatestEntry
\* returned the one with the greater ID.
C23_Witness ==
    /\ AfterLookup("GetLatestEntry")
    /\ L.fault = "none"
    /\ Cardinality(Listable) >= 2
    /\ L.found
    /\ L.entry.ID = IdString(2)
    /\ \E n \in Listable : StrLess(loadEntry(hist[n]).entry.ID, L.entry.ID)

\* the request of the Run in flight or of the Run that returned last
RunRequest == IF pc = "idle" THEN ret.spec ELSE call.spec
\* a Run has invoked the Generator
RunInvoked == gen.count > 0 /\ (IF pc = "idle" THEN ret.op = "run" ELSE call.op = "run")

\* C24: Run invokes the Generator with exactly the Spec's model, prompt,
\* image paths, aspect ratio and image size, unchanged.
C24_RunPassesSpecToGenerator ==
    RunInvoked =>
        /\ gen.params.Model = RunRequest.Model
        /\ gen.params.Prompt = RunRequest.Prompt
        /\ gen.params.ImagePaths = RunRequest.ImagePaths
        /\ gen.params.AspectRatio = RunRequest.AspectRatio
        /\ gen.params.ImageSize = RunRequest.ImageSize

\* C24 witness: a Run with two image paths, aspect ratio 16:9 and size 2K
\* returned after the Generator got those values.
C24_Witness ==
    /\ Returned("run")
    /\ RunInvoked
    /\ ret.kind = "ok"
    /\ Len(gen.params.ImagePaths) = 2
    /\ gen.params.AspectRatio = <<"1", "6", ":", "9">>
    /\ gen.params.ImageSize = "2K"

\* what the caller of a validator holds
V == mem.validation
Rejected == V.err # << >>
\* the paths of the request at which no file exists
NotOnDisk(paths) == {i \in 1..Len(paths) : paths[i] \notin ExistingFiles}
\* the values the error prints after its message
NamedIn(err) == {err[i] : i \in 2..Len(err)}

\* C26: validateInputImages returns nil exactly when every given path exists
\* on disk, and otherwise one error that names every path that does not
\* exist.
C26_Original ==
    V.op = "validateInputImages" =>
        /\ ~Rejected <=> NotOnDisk(V.ctx.ImagePaths) = {}
        /\ Rejected => NamedIn(V.err) = {V.ctx.ImagePaths[i] : i \in NotOnDisk(V.ctx.ImagePaths)}

\* a string of one or more digits, a colon, one or more digits
IsRatio(s) ==
    \E i \in 2..(Len(s) - 1) :
        /\ s[i] = ":"
        /\ \A j \in 1..(i - 1) : s[j] \in Digits
        /\ \A j \in (i + 1)..Len(s) : s[j] \in Digits

\* C25: the validation of a request rejects it exactly when the aspect ratio
\* is non-empty and not digits:digits, or the image size is non-empty and
\* none of 1K, 2K, 4K, or no input image is given, or some input image path
\* does not exist.
C25_Original ==
    V.op = "validateContext" =>
        (Rejected <=>
            \/ V.ctx.AspectRatio # << >> /\ ~IsRatio(V.ctx.AspectRatio)
            \/ V.ctx.ImageSize # "" /\ V.ctx.ImageSize \notin {"1K", "2K", "4K"}
            \/ Len(V.ctx.ImagePaths) = 0
            \/ NotOnDisk(V.ctx.ImagePaths) # {})

\* what the caller of Save holds
Sv == mem.save
\* the files of a directory other than the metadata file
OtherFiles(disk) == [disk.dir EXCEPT !.meta = Absent]
\* both Saves were made and returned nil
SavedTwice == Len(Sv.errs) = 2 /\ Sv.errs[1] = "" /\ Sv.errs[2] = ""

\* C27: saving the same Entry or EditEntry twice (both Saves returning nil)
\* leaves the directory as saving it once left it; a later Save under the
\* same ID puts the later value's metadata in place of the earlier; and no
\* Save, failing or not, touches another file of an existing directory.
C27_SaveOverwritesOnlyTheMetadata ==
    /\ SavedTwice /\ ~Sv.revised => Sv.after[2] = Sv.after[1]
    /\ SavedTwice => Sv.after[2].dir.meta = Full(MarshalValue(mem.kind, mem.value))
    /\ \A i \in 1..Len(Sv.after) :
         /\ Sv.before.exists => Sv.after[i].exists /\ OtherFiles(Sv.after[i]) = OtherFiles(Sv.before)
         /\ ~Sv.before.exists /\ Sv.after[i].exists => OtherFiles(Sv.after[i]) = MadeDir(mem.kind)

\* C27 witness: a second Save of a revised value into a directory that held
\* a prompt, outputs and earlier metadata replaced the metadata of the first.
C27_Witness ==
    /\ SavedTwice
    /\ Sv.revised
    /\ Sv.before.exists
    /\ Sv.before.dir.meta # Absent
    /\ Sv.before.dir.outputs # {}
    /\ Sv.after[2].dir.meta # Sv.after[1].dir.meta
    /\ Sv.after[1].dir.meta # Sv.before.dir.meta

\* the last call returned success
Succeeded(op) == Returned(op) /\ ret.kind = "ok"
\* a lookup result and a list hold the returned ID as a successful entry
\* with the returned output names
RecordedIn(r, list) ==
    /\ r.found
    /\ r.entry.ID = ret.id
    /\ \E i \in 1..Len(list) :
         /\ list[i].ID = ret.id
         /\ list[i].Result.Success
         /\ list[i].Result.OutputImages = ret.outputs
\* the store as readers see it after the last call
Recorded ==
    /\ FilesNamed(ret.outputs) \subseteq ResultDir.outputs
    /\ IF ret.op = "run"
       THEN RecordedIn(GetEntryByID(Disk, ret.id, "none"), ListEntries(Disk).list)
       ELSE RecordedIn(GetEditEntryByID(hist[ret.spec.EntryID], ret.id, "none"),
                       ListEditEntries(hist[ret.spec.EntryID]).list)

\* C28 as stated: whenever Run returns success with EntryID e, GetEntryByID
\* of e succeeds and ListEntries contains e with Result.Success true and
\* exactly the returned output names, each of them a file in the entry
\* directory; the same for Edit with GetEditEntryByID and ListEditEntries.
C28_Original == (Succeeded("run") \/ Succeeded("edit")) => Recorded

\* C28 amended: the same whenever Run or Edit returns success without the
\* warning that the metadata could not be saved; with the warning the output
\* files are there but no metadata names them.
C28_SuccessIsRecordedUnlessWarned ==
    /\ ((Succeeded("run") \/ Succeeded("edit")) /\ ~MetadataWarning) => Recorded
    /\ ((Succeeded("run") \/ Succeeded("edit")) /\ MetadataWarning) =>
          /\ FilesNamed(ret.outputs) \subseteq ResultDir.outputs
          /\ ResultDir.meta.st # "full"

\* C28 witness: an Edit returned two output names without a warning, and
\* both files are in the edit directory.
C28_Witness ==
    /\ Succeeded("edit")
    /\ ~MetadataWarning
    /\ Len(ret.outputs) = 2
    /\ Recorded

\* the EditSpec of the Edit in flight or of the Edit that returned last
EditRequest == IF pc = "idle" THEN ret.spec ELSE call.spec
\* an Edit has invoked the Generator
EditInvoked == gen.count > 0 /\ (IF pc = "idle" THEN ret.op = "edit" ELSE call.op = "edit")

\* C29: Edit passes the EditSpec's aspect ratio and image size to the
\* Generator, and the metadata of the new EditEntry records them.
C29_Original ==
    /\ EditInvoked =>
          /\ gen.params.AspectRatio = EditRequest.AspectRatio
          /\ gen.params.ImageSize = EditRequest.ImageSize
    /\ (Succeeded("edit") /\ ~MetadataWarning) =>
          /\ ResultDir.meta.data.Generation.AspectRatio = ret.spec.AspectRatio
          /\ ResultDir.meta.data.Generation.ImageSize = ret.spec.ImageSize

\* the Generator reported success with a response that holds no image
NoImage == gen.count = 1 /\ ~gen.failed /\ ImageCount(gen.resp) = 0
\* the directory of the last attempt is not on disk
AttemptGone ==
    IF ret.op = "run" THEN ret.attempt \notin DOMAIN hist
    ELSE ret.attempt \notin DOMAIN hist[ret.spec.EntryID].edits.items
\* the last call warned that it could not remove its directory
CleanupWarning ==
    \/ ret.op = "run" /\ "Warning: failed to clean up history directory" \in out
    \/ ret.op = "edit" /\ "Warning: failed to clean up edit directory" \in out
\* the entries and edits readers list are those of before the call
ListedAsBefore ==
    /\ ListEntries(Disk) = ListEntries(pre)
    /\ \A n \in DOMAIN pre.hist :
         pre.hist[n].kind = "dir" => ListEditEntries(hist[n]) = ListEditEntries(pre.hist[n])
    /\ (ret.op = "edit" /\ ret.spec.EntryID \notin DOMAIN pre.hist) =>
          ListEditEntries(hist[ret.spec.EntryID]).list = << >>

\* C30 as stated: when the Generator reports success with a response that
\* holds no image, Run and Edit return an error and the new entry or edit
\* directory is removed.
C30_Original ==
    ((Returned("run") \/ Returned("edit")) /\ NoImage) =>
        /\ ret.kind = "err"
        /\ AttemptGone

\* C30 amended: Run and Edit then return the error of SaveImages and call
\* Cleanup, which removes the new directory unless the removal itself fails
\* (a warning); in either case no metadata is written for the attempt and
\* readers list the entries and edits of before the call.
C30_NoImageIsAnError ==
    ((Returned("run") \/ Returned("edit")) /\ NoImage) =>
        /\ ret.kind = "err"
        /\ \/ Contains(ret.err, "no image response found")
           \/ Contains(ret.err, "response is empty")
           \/ Contains(ret.err, "failed to create output directory")
        /\ ~CleanupWarning => AttemptGone
        /\ ~AttemptGone => ResultDir.meta.st = "absent" /\ ResultDir.outputs = {}
        /\ ListedAsBefore

\* C30 witness: the response of an Edit held a part without image data;
\* Edit returned "no image response found" and its directory is gone.
C30_Witness ==
    /\ Returned("edit")
    /\ NoImage
    /\ gen.resp.parts = <<"nil">>
    /\ Contains(ret.err, "no image response found")
    /\ AttemptGone
    /\ ListedAsBefore

====
